---- MODULE Spec2Model ----
(***************************************************************************)
(* State-machine model of the manual mask editor DirectorySegmentation     *)
(* (src/directory_segmentation.py): image navigation, mask loading and     *)
(* saving, brush strokes, the undo/redo history and the pan/zoom viewport. *)
(*                                                                         *)
(* A raster is modelled by its size and, for the mask, the alpha value of  *)
(* every pixel (painting uses opaque white on a premultiplied buffer, so   *)
(* colour equals alpha and alpha alone determines the pixel).              *)
(***************************************************************************)
EXTENDS Integers, Sequences, FiniteSets, TLC

(* ------------------------------ bounds --------------------------------- *)
\* longest image list explored (a prefix of AllFiles)
MaxImages == 3
\* the pointer-down handler is explored while the undo stack is shorter
MaxHist == 1
\* pan offsets explored while no image is loaded (the code does not clamp then)
MaxPan == 1

\* crops of one image in the inference window
MaxCrops == 1
\* half seconds the clock runs while workspaces are created
MaxClock == 3

(* --------------------------- program constants ------------------------- *)
ZoomMin == 10
ZoomMax == 400
ZoomDefault == 100
RadiusMin == 1
RadiusMax == 100
RadiusDefault == 10
\* alpha of a pixel that the antialiased stroke outline covers only in part
PartialCoverage == 128
Opaque == 255

\* values of the zoom and radius spin boxes that the model draws from
ZoomSet == {ZoomDefault, 200}
RadiusSet == {RadiusDefault, RadiusMax}

None == [none |-> TRUE]

\* size of the image label (the viewport) when the window opens, in pixels
Label == [w |-> 2, h |-> 1]

Max(a, b) == IF a >= b THEN a ELSE b
Min(a, b) == IF a <= b THEN a ELSE b

Pt(x, y) == [x |-> x, y |-> y]

(* ------------------------------ rasters -------------------------------- *)
Pixels(w, h) == (0 .. w - 1) \X (0 .. h - 1)

\* QImage(size, Format_ARGB32_Premultiplied) followed by fill(0)
BlankMask(w, h) == [w |-> w, h |-> h, px |-> [q \in Pixels(w, h) |-> 0]]

RECURSIVE SumOver(_, _)
SumOver(f, S) ==
    IF S = {} THEN 0
    ELSE LET e == CHOOSE e \in S : TRUE IN f[e] + SumOver(f, S \ {e})

\* source pixels that an exact-fit rescale folds into target coordinate t
SourceCells(t, from, to) ==
    LET into == {s \in 0 .. from - 1 : (s * to) \div from = t}
    IN IF into = {} THEN {(t * from) \div to} ELSE into

\* QImage.scaled(size, IgnoreAspectRatio, SmoothTransformation): exact fit,
\* every target pixel the mean of the source pixels it covers
ScaleMask(m, w, h) ==
    [w |-> w, h |-> h,
     px |-> [q \in Pixels(w, h) |->
               LET cells == SourceCells(q[1], m.w, w) \X SourceCells(q[2], m.h, h)
               IN SumOver(m.px, cells) \div Cardinality(cells)]]

\* PNG with alpha written by QImage.save and read back by QImage(path) and
\* convertToFormat(ARGB32_Premultiplied): size and alpha of every pixel
PngOf(m) == [kind |-> "png", w |-> m.w, h |-> m.h, px |-> m.px]
ImageOf(f) == [w |-> f.w, h |-> f.h, px |-> f.px]
Absent == [kind |-> "absent"]
Corrupt == [kind |-> "corrupt"]

(* ------------------------------ the files ------------------------------ *)
\* image files of the directory, in sorted(os.listdir) order; ok = decodes
File(base, ext, ok, w, h) == [base |-> base, ext |-> ext, ok |-> ok, w |-> w, h |-> h]
AllFiles == << File("a", ".jpg", TRUE, 2, 1), File("a", ".png", TRUE, 1, 1),
               File("b", ".png", FALSE, 0, 0), File("b", ".tif", TRUE, 1, 1) >>
Bases == {AllFiles[i].base : i \in 1 .. Len(AllFiles)}
\* the directory is empty, holds one image, or holds the first MaxImages files
Listings == {SubSeq(AllFiles, 1, k) : k \in {0, 1, Min(MaxImages, Len(AllFiles))}}

\* a file of the workspace: the sub-folder and the file name in it
PathOf(dir, name) == [dir |-> dir, name |-> name]

\* f"{image_basename}_mask.png" in mask_dir "Mask": the file the mask lookup
\* and the masked-images counter read, and the opened workspace writes
MaskFileOf(file) == PathOf("Mask", <<file.base, "_mask.png">>)

\* what the folder holds at a path
FileAt(files, path) == IF path \in DOMAIN files THEN files[path] ELSE Absent

(* ----------------------------- the viewport ---------------------------- *)
\* int(x) of a Python float: truncation towards zero
TruncDiv(a, b) == IF a >= 0 THEN a \div b ELSE -((-a) \div b)

\* variant: rounds to the nearest integer
ScaledDim_Rounds(d, zoom) == (d * zoom + 50) \div 100
\* int(orig_pixmap.width() * zoom) with zoom = zoom_spin.value() / 100.0
ScaledDim(d, zoom) == TruncDiv(d * zoom, 100)

\* QSize.scaled(tw, th, Qt.KeepAspectRatio)
QSizeScaledKeep(w, h, tw, th) ==
    IF w = 0 \/ h = 0 THEN [w |-> tw, h |-> th]
    ELSE LET rw == (th * w) \div h
         IN IF rw <= tw THEN [w |-> rw, h |-> th]
            ELSE [w |-> tw, h |-> (tw * h) \div w]

NullPixmap == [w |-> 0, h |-> 0]

\* QPixmap.scaled(tw, th, Qt.KeepAspectRatio, ...): an empty target gives a
\* null pixmap, otherwise each side is at least one pixel
PixmapScaled(w, h, tw, th) ==
    IF tw <= 0 \/ th <= 0 THEN NullPixmap
    ELSE LET q == QSizeScaledKeep(w, h, tw, th)
         IN [w |-> Max(q.w, 1), h |-> Max(q.h, 1)]

\* variants: one side of the clamp missing
ClampPan_NoUpper(v, maxv) == Max(v, 0)
ClampPan_NoLower(v, maxv) == Min(v, maxv)
\* variant: a pan beyond the bound moves one pixel towards it per render
ClampPan_OneStep(v, maxv) == IF v > maxv THEN v - 1 ELSE Max(v, 0)
\* min(max(pan, 0), max_pan)
ClampPan(v, maxv) == Min(Max(v, 0), maxv)

\* QPixmap.copy(x, y, w, h): the part of the rectangle that lies in the pixmap
\* (the whole pixmap when the rectangle is empty)
PixmapCopy(p, x, y, w, h) ==
    LET cw == Min(x + w, p.w) - Max(x, 0)
        ch == Min(y + h, p.h) - Max(y, 0)
    IN IF p = NullPixmap THEN NullPixmap
       ELSE IF w <= 0 \/ h <= 0 THEN p
       ELSE IF cw <= 0 \/ ch <= 0 THEN NullPixmap
       ELSE [w |-> cw, h |-> ch]

\* _update_image_display with _render_mask_overlay, image loaded: the values
\* it computes, under the names the code gives them.  crop and mask_crop are
\* the rectangles handed to scaled_pixmap.copy and mask_scaled.copy (None
\* when that copy is not made), composed is the size of the pixmap shown.
Render(s) ==
    LET scaled_width == ScaledDim(s.original_pixmap.w, s.zoom_spin)
        scaled_height == ScaledDim(s.original_pixmap.h, s.zoom_spin)
        scaled_pixmap == PixmapScaled(s.original_pixmap.w, s.original_pixmap.h,
                                      scaled_width, scaled_height)
        max_x == Max(0, scaled_pixmap.w - s.label.w)
        max_y == Max(0, scaled_pixmap.h - s.label.h)
        pan_x == ClampPan(s.pan_offset.x, max_x)
        pan_y == ClampPan(s.pan_offset.y, max_y)
        crops == scaled_pixmap.w > s.label.w \/ scaled_pixmap.h > s.label.h
        visible_width == Min(s.label.w, scaled_pixmap.w - pan_x)
        visible_height == Min(s.label.h, scaled_pixmap.h - pan_y)
        base_pixmap == IF crops
                       THEN PixmapCopy(scaled_pixmap, pan_x, pan_y,
                                       visible_width, visible_height)
                       ELSE scaled_pixmap
        overlay == s.mask # None /\ base_pixmap # NullPixmap
    IN [scaled_width |-> scaled_width, scaled_height |-> scaled_height,
        scaled_pixmap |-> scaled_pixmap,
        max_x |-> max_x, max_y |-> max_y, pan_x |-> pan_x, pan_y |-> pan_y,
        crop |-> IF crops
                 THEN [x |-> pan_x, y |-> pan_y,
                       w |-> visible_width, h |-> visible_height]
                 ELSE None,
        mask_scaled |-> IF overlay
                        THEN PixmapScaled(s.mask.w, s.mask.h, scaled_width, scaled_height)
                        ELSE None,
        mask_crop |-> IF overlay
                      THEN [x |-> pan_x, y |-> pan_y,
                            w |-> base_pixmap.w, h |-> base_pixmap.h]
                      ELSE None,
        composed |-> base_pixmap]

\* variant: shows the visible region and keeps the pan offset as it is
UpdateImageDisplay_NoClamp(s) ==
    IF s.original_pixmap = None THEN s
    ELSE [s EXCEPT !.pixmap_size = Render(s).composed]

\* _update_image_display: clamps the pan offset and shows the visible region
UpdateImageDisplay(s) ==
    IF s.original_pixmap = None THEN s
    ELSE LET r == Render(s)
         IN [s EXCEPT !.pan_offset = Pt(r.pan_x, r.pan_y), !.pixmap_size = r.composed]

\* variant: leaves the pan offset out
MapLabelPosToImage_NoPan(s, pos) ==
    IF s.original_pixmap = None THEN None
    ELSE LET local_x == pos.x - (s.label.w - s.pixmap_size.w) \div 2
             local_y == pos.y - (s.label.h - s.pixmap_size.h) \div 2
         IN IF local_x < 0 \/ local_y < 0 \/ local_x >= s.pixmap_size.w
               \/ local_y >= s.pixmap_size.h
            THEN None
            ELSE LET image_x == TruncDiv(local_x * 100, s.zoom_spin)
                     image_y == TruncDiv(local_y * 100, s.zoom_spin)
                 IN IF image_x >= s.original_pixmap.w \/ image_y >= s.original_pixmap.h
                    THEN None
                    ELSE Pt(image_x, image_y)

\* _map_label_pos_to_image: pointer position (label coordinates) to image pixel
\* variant: the image coordinate is rounded to the nearest pixel
MapLabelPosToImage_Rounds(s, pos) ==
    IF s.original_pixmap = None THEN None
    ELSE LET local_x == pos.x - (s.label.w - s.pixmap_size.w) \div 2
             local_y == pos.y - (s.label.h - s.pixmap_size.h) \div 2
         IN IF local_x < 0 \/ local_y < 0 \/ local_x >= s.pixmap_size.w
               \/ local_y >= s.pixmap_size.h
            THEN None
            ELSE LET image_x == ((local_x + s.pan_offset.x) * 200 + s.zoom_spin)
                                    \div (2 * s.zoom_spin)
                     image_y == ((local_y + s.pan_offset.y) * 200 + s.zoom_spin)
                                    \div (2 * s.zoom_spin)
                 IN IF image_x < 0 \/ image_y < 0 \/ image_x >= s.original_pixmap.w
                       \/ image_y >= s.original_pixmap.h
                    THEN None
                    ELSE Pt(image_x, image_y)

MapLabelPosToImage(s, pos) ==
    IF s.original_pixmap = None THEN None
    ELSE LET offset_x == (s.label.w - s.pixmap_size.w) \div 2
             offset_y == (s.label.h - s.pixmap_size.h) \div 2
             local_x == pos.x - offset_x
             local_y == pos.y - offset_y
         IN IF local_x < 0 \/ local_y < 0 \/ local_x >= s.pixmap_size.w
               \/ local_y >= s.pixmap_size.h
            THEN None
            ELSE LET image_x == TruncDiv((local_x + s.pan_offset.x) * 100, s.zoom_spin)
                     image_y == TruncDiv((local_y + s.pan_offset.y) * 100, s.zoom_spin)
                 IN IF image_x < 0 \/ image_y < 0 \/ image_x >= s.original_pixmap.w
                       \/ image_y >= s.original_pixmap.h
                    THEN None
                    ELSE Pt(image_x, image_y)

(* ------------------------------ the mask ------------------------------- *)
\* variant: keeps a mask that is already there (as _ensure_mask does)
InitMask_KeepsMask(s) ==
    IF s.mask # None THEN s
    ELSE IF s.original_pixmap # None
    THEN [s EXCEPT !.mask = BlankMask(s.original_pixmap.w, s.original_pixmap.h)]
    ELSE s

\* _init_mask
InitMask(s) ==
    IF s.original_pixmap # None
    THEN [s EXCEPT !.mask = BlankMask(s.original_pixmap.w, s.original_pixmap.h)]
    ELSE [s EXCEPT !.mask = None]

\* _ensure_mask
EnsureMask(s) == IF s.mask = None THEN InitMask(s) ELSE s

\* variant: uses the saved mask at the size it has on disk
LoadExistingMask_NoRescale(s, files, file) ==
    LET f == FileAt(files, MaskFileOf(file))
    IN IF f.kind = "png" /\ s.original_pixmap # None
       THEN [s EXCEPT !.mask = ImageOf(f)]
       ELSE [s EXCEPT !.mask = BlankMask(s.original_pixmap.w, s.original_pixmap.h)]

\* _load_existing_mask: the saved mask of the image, rescaled to the image
\* size when it differs; a blank mask when the file is absent or unreadable
LoadExistingMask(s, files, file) ==
    LET f == FileAt(files, MaskFileOf(file))
    IN IF f.kind = "png" /\ s.original_pixmap # None
       THEN LET loaded == ImageOf(f)
                w == s.original_pixmap.w
                h == s.original_pixmap.h
            IN [s EXCEPT !.mask = IF loaded.w # w \/ loaded.h # h
                                  THEN ScaleMask(loaded, w, h)
                                  ELSE loaded]
       ELSE InitMask(s)

(* ---------------------------- image loading ---------------------------- *)
\* variant: both buttons follow the undo stack
UpdateUndoRedoButtons_BothFromUndo(s) ==
    [s EXCEPT !.undo_btn = s.undo_stack # <<>>, !.redo_btn = s.undo_stack # <<>>]

\* _update_undo_redo_buttons: setEnabled of the Undo and the Redo button
UpdateUndoRedoButtons(s) ==
    [s EXCEPT !.undo_btn = s.undo_stack # <<>>, !.redo_btn = s.redo_stack # <<>>]

\* variant: a failed decode leaves the previous image's mask in place
LoadCurrentImage_KeepsMaskOnFailure(s, files) ==
    IF s.image_files = <<>> \/ ~s.image_files[s.current_index + 1].ok
    THEN [s EXCEPT !.label_text = "Unable to load image", !.pixmap_size = NullPixmap,
                   !.original_pixmap = None]
    ELSE LET file == s.image_files[s.current_index + 1]
             s1 == [s EXCEPT !.original_pixmap = [w |-> file.w, h |-> file.h]]
             s2 == IF s1.workspace_mode = "open"
                   THEN LoadExistingMask(s1, files, file)
                   ELSE InitMask(s1)
         IN UpdateImageDisplay(UpdateUndoRedoButtons(
                [s2 EXCEPT !.undo_stack = <<>>, !.redo_stack = <<>>]))

\* _load_current_image
LoadCurrentImage(s, files) ==
    IF s.image_files = <<>>
    THEN [s EXCEPT !.label_text = "No image available", !.pixmap_size = NullPixmap,
                   !.original_pixmap = None, !.mask = None]
    ELSE LET file == s.image_files[s.current_index + 1]
         IN IF ~file.ok
            THEN [s EXCEPT !.label_text = "Unable to load image",
                           !.pixmap_size = NullPixmap,
                           !.original_pixmap = None, !.mask = None]
            ELSE LET s1 == [s EXCEPT !.original_pixmap = [w |-> file.w, h |-> file.h]]
                     s2 == IF s1.workspace_mode = "open"
                           THEN LoadExistingMask(s1, files, file)
                           ELSE InitMask(s1)
                     s3 == UpdateUndoRedoButtons(
                               [s2 EXCEPT !.undo_stack = <<>>, !.redo_stack = <<>>])
                 IN UpdateImageDisplay(s3)

\* _go_next / _go_previous: the index arithmetic
NextIndex(i, n) == (i + 1) % n
\* variant: stops at the first image instead of wrapping to the last
PreviousIndex_NoWrap(i, n) == IF i = 0 THEN 0 ELSE i - 1
PreviousIndex(i, n) == (i - 1) % n

\* _go_next
GoNextOf(s, files) ==
    IF s.image_files = <<>> THEN s
    ELSE LoadCurrentImage(
           [s EXCEPT !.current_index = NextIndex(s.current_index, Len(s.image_files))],
           files)

\* _go_previous
GoPreviousOf(s, files) ==
    IF s.image_files = <<>> THEN s
    ELSE LoadCurrentImage(
           [s EXCEPT !.current_index = PreviousIndex(s.current_index, Len(s.image_files))],
           files)

(* ------------------------------ strokes -------------------------------- *)
\* pen_width = max(1, radius * 2)
\* variant: the radius taken for half the radius of the pen
PenWidth_Double(radius) == Max(1, radius * 4)
PenWidth(radius) == Max(1, radius * 2)

\* point c lies within width/2 of the segment a-b (strictly within, if strict)
InStroke(c, a, b, width, strict) ==
    LET dx == b.x - a.x
        dy == b.y - a.y
        len2 == dx * dx + dy * dy
        t == (c.x - a.x) * dx + (c.y - a.y) * dy
        da2 == (c.x - a.x) * (c.x - a.x) + (c.y - a.y) * (c.y - a.y)
        db2 == (c.x - b.x) * (c.x - b.x) + (c.y - b.y) * (c.y - b.y)
        Near(d2, scale) == IF strict THEN 4 * d2 < width * width * scale
                           ELSE 4 * d2 <= width * width * scale
    IN IF len2 = 0 \/ t <= 0 THEN Near(da2, 1)
       ELSE IF t >= len2 THEN Near(db2, 1)
       ELSE Near(da2 * len2 - t * t, len2)

\* Antialiased round-capped line: pixel q is the unit square with corners
\* (q.x, q.y) .. (q.x + 1, q.y + 1); the line runs between the coordinates
\* given to drawLine.  Covered whole, in part, or not at all.
Coverage(q, a, b, width) ==
    LET corners == {Pt(q[1] + i, q[2] + j) : i \in {0, 1}, j \in {0, 1}}
    IN IF \A c \in corners : InStroke(c, a, b, width, FALSE) THEN Opaque
       ELSE IF \E c \in corners : InStroke(c, a, b, width, TRUE) THEN PartialCoverage
       ELSE 0

\* CompositionMode_SourceOver with opaque white, at coverage c
PaintPixel(alpha, c) == c + (alpha * (Opaque - c)) \div Opaque
\* CompositionMode_Clear, at coverage c
ErasePixel(alpha, c) == (alpha * (Opaque - c)) \div Opaque

\* _apply_stroke
ApplyStroke(s, start_point, end_point) ==
    IF s.mask = None \/ start_point = None \/ end_point = None THEN s
    ELSE LET width == PenWidth(s.radius_spin)
             drawn == [q \in DOMAIN s.mask.px |->
                         LET c == Coverage(q, start_point, end_point, width)
                         IN IF s.tool = "erase" THEN ErasePixel(s.mask.px[q], c)
                            ELSE PaintPixel(s.mask.px[q], c)]
         IN UpdateImageDisplay([s EXCEPT !.mask.px = drawn])

(* ---------------------------- undo / redo ------------------------------ *)
\* list.pop(): the last element and the rest
Top(stack) == stack[Len(stack)]
Pop(stack) == SubSeq(stack, 1, Len(stack) - 1)

\* variant: leaves the redo stack as it is
SaveMaskState_KeepsRedo(s) ==
    IF s.mask # None
    THEN UpdateUndoRedoButtons([s EXCEPT !.undo_stack = Append(@, s.mask)])
    ELSE s

\* _save_mask_state
SaveMaskState(s) ==
    IF s.mask # None
    THEN UpdateUndoRedoButtons(
             [s EXCEPT !.undo_stack = Append(@, s.mask), !.redo_stack = <<>>])
    ELSE s

\* variant: restores the previous state without keeping the current one
UndoOf_DropsCurrent(s) ==
    IF s.undo_stack = <<>> THEN s
    ELSE UpdateUndoRedoButtons(
             [s EXCEPT !.mask = Top(s.undo_stack), !.undo_stack = Pop(@)])

\* _undo
UndoOf(s) ==
    IF s.undo_stack = <<>> THEN s
    ELSE LET s1 == IF s.mask # None
                   THEN [s EXCEPT !.redo_stack = Append(@, s.mask)]
                   ELSE s
         IN UpdateImageDisplay(UpdateUndoRedoButtons(
                [s1 EXCEPT !.mask = Top(s.undo_stack), !.undo_stack = Pop(@)]))

\* variant: puts the current state back on the redo stack
RedoOf_PushesRedo(s) ==
    IF s.redo_stack = <<>> THEN s
    ELSE UpdateUndoRedoButtons(
             [s EXCEPT !.mask = Top(s.redo_stack),
                       !.redo_stack = Append(Pop(@), s.mask)])

\* _redo
RedoOf(s) ==
    IF s.redo_stack = <<>> THEN s
    ELSE LET s1 == IF s.mask # None
                   THEN [s EXCEPT !.undo_stack = Append(@, s.mask)]
                   ELSE s
         IN UpdateImageDisplay(UpdateUndoRedoButtons(
                [s1 EXCEPT !.mask = Top(s.redo_stack), !.redo_stack = Pop(@)]))

(* --------------------------- pointer events ---------------------------- *)
\* variant: takes the snapshot before it tests where the pointer is
MousePressOf_SnapshotFirst(s, pos) ==
    IF s.tool = "cursor"
    THEN [s EXCEPT !.dragging = TRUE, !.drag_start = pos, !.pan_start = s.pan_offset]
    ELSE LET target == MapLabelPosToImage(s, pos)
             s1 == SaveMaskState(EnsureMask(s))
         IN IF target # None
            THEN ApplyStroke([s1 EXCEPT !.drawing = TRUE, !.last_draw_point = target],
                             target, target)
            ELSE s1

\* mousePressEvent, left button, pointer over the image label at pos
MousePressOf(s, pos) ==
    IF s.tool = "cursor"
    THEN [s EXCEPT !.dragging = TRUE, !.drag_start = pos, !.pan_start = s.pan_offset]
    ELSE LET target == MapLabelPosToImage(s, pos)
         IN IF target # None
            THEN ApplyStroke([SaveMaskState(EnsureMask(s)) EXCEPT
                                 !.drawing = TRUE, !.last_draw_point = target],
                             target, target)
            ELSE s

\* variant: takes a history snapshot on every drawing move
MouseMoveOf_SnapshotPerMove(s, pos) ==
    IF s.drawing /\ s.tool \in {"pen", "erase"}
    THEN LET target == MapLabelPosToImage(s, pos)
         IN IF target # None
            THEN [ApplyStroke(SaveMaskState(s), s.last_draw_point, target) EXCEPT
                     !.last_draw_point = target]
            ELSE s
    ELSE s

\* variant: every drawing move paints a dab at the pointer only
MouseMoveOf_Dabs(s, pos) ==
    IF s.drawing /\ s.tool \in {"pen", "erase"}
    THEN LET target == MapLabelPosToImage(s, pos)
         IN IF target # None
            THEN [ApplyStroke(s, target, target) EXCEPT !.last_draw_point = target]
            ELSE s
    ELSE s

\* mouseMoveEvent
MouseMoveOf(s, pos) ==
    IF s.dragging /\ s.tool = "cursor"
    THEN LET new_pan_x == s.pan_start.x - (pos.x - s.drag_start.x)
             new_pan_y == s.pan_start.y - (pos.y - s.drag_start.y)
             max_x == Max(0, ScaledDim(s.original_pixmap.w, s.zoom_spin) - s.label.w)
             max_y == Max(0, ScaledDim(s.original_pixmap.h, s.zoom_spin) - s.label.h)
             pan == IF s.original_pixmap # None
                    THEN Pt(ClampPan(new_pan_x, max_x), ClampPan(new_pan_y, max_y))
                    ELSE Pt(new_pan_x, new_pan_y)
         IN UpdateImageDisplay([s EXCEPT !.pan_offset = pan])
    ELSE IF s.drawing /\ s.tool \in {"pen", "erase"}
    THEN LET target == MapLabelPosToImage(s, pos)
         IN IF target # None
            THEN [ApplyStroke(s, s.last_draw_point, target) EXCEPT
                     !.last_draw_point = target]
            ELSE s
    ELSE s

\* mouseReleaseEvent, left button.  _drag_start and _pan_start are read only
\* while _dragging is set and are assigned with it, so they are cleared here.
MouseReleaseOf(s) ==
    [s EXCEPT !.dragging = FALSE, !.drag_start = None, !.pan_start = None,
              !.drawing = FALSE,
              !.last_draw_point = IF s.drawing THEN None ELSE @]

(* ------------------------------ controls ------------------------------- *)
\* _on_zoom_changed, after the spin box took the new value
OnZoomChanged(s, value) ==
    LET s1 == [s EXCEPT !.zoom_spin = value]
    IN IF s.original_pixmap # None /\ value # s.zoom_spin
       THEN LET center_x == s.pan_offset.x + s.label.w \div 2
                center_y == s.pan_offset.y + s.label.h \div 2
                new_pan_x == Max(0, center_x - s.label.w \div 2)
                new_pan_y == Max(0, center_y - s.label.h \div 2)
                max_x == Max(0, ScaledDim(s.original_pixmap.w, value) - s.label.w)
                max_y == Max(0, ScaledDim(s.original_pixmap.h, value) - s.label.h)
            IN UpdateImageDisplay(
                 [s1 EXCEPT !.pan_offset = Pt(Min(new_pan_x, max_x), Min(new_pan_y, max_y))])
       ELSE UpdateImageDisplay(s1)

\* _on_tool_changed / _on_radius_changed: only the cursor shape follows
OnToolChanged(s, t) == [s EXCEPT !.tool = t]
OnRadiusChanged(s, value) == [s EXCEPT !.radius_spin = value]

\* resizeEvent, after the layout gave the image label its new size
ResizeOf(s, size) == UpdateImageDisplay([s EXCEPT !.label = size])

(* ------------------------ workspace configuration ---------------------- *)
\* WorkspaceConfig.DEFAULT_CONFIG: every key with its default value
ConfigKeys == {"workspace_root", "naming_pattern", "subdirs",
               "overwrite_existing", "create_timestamp_on_conflict"}
DEFAULT_CONFIG == [k \in ConfigKeys |-> "default"]

\* a naming pattern is a string: here the sequence of its pieces, a piece
\* being literal text or a replacement field of str.format
DefaultPattern == <<"{basename}", "_mask.png">>
DefaultSubdirs == [original |-> "OriginalImage", mask |-> "Mask"]

\* a JSON object of the file: its keys, and the values it gives for
\* naming_pattern and subdirs (the defaults stand in when the key is absent;
\* the values of the other keys are whatever the file gives)
ObjectFile(keys, pattern, subdirs) ==
    [kind |-> "object", keys |-> keys,
     pattern |-> IF "naming_pattern" \in keys THEN pattern ELSE DefaultPattern,
     subdirs |-> IF "subdirs" \in keys THEN subdirs ELSE DefaultSubdirs]

\* contents of workspace_config.json: no file, a file that cannot be opened,
\* bytes that are not UTF-8, text that is not JSON, or a JSON value: an
\* object (its keys; the values are whatever the file gives), an array (empty,
\* of scalars, or of pairs, which dict.update takes as key and value: here one
\* pair for the key "extra"), a string (empty or not), a number, a boolean,
\* null
ConfigAbsent == [kind |-> "absent"]
ConfigObjects ==
    {ObjectFile(K, <<"{basename}", "_seg.png">>, [original |-> "Images", mask |-> "Masks"]) :
        K \in SUBSET (ConfigKeys \cup {"extra"})}
ConfigFiles ==
    {ConfigAbsent, [kind |-> "unreadable"], [kind |-> "not_utf8"],
     [kind |-> "invalid_json"], [kind |-> "number"], [kind |-> "boolean"],
     [kind |-> "null"]}
    \cup {[kind |-> "array", items |-> i] : i \in {"none", "pairs", "scalars"}}
    \cup {[kind |-> "string", empty |-> e] : e \in BOOLEAN}
    \cup ConfigObjects

Returned(cfg) == [raised |-> "none", config |-> cfg]
Raised(exception) == [raised |-> exception, config |-> None]

\* dict.update(loaded_config) on a copy of the defaults
MergedWith(keys) ==
    [k \in ConfigKeys \cup keys |-> IF k \in keys THEN "file" ELSE "default"]

\* variant: anything that is not a JSON object gives the defaults
ConfigLoad_ChecksType(file) ==
    IF file.kind = "object" THEN Returned(MergedWith(file.keys))
    ELSE Returned(DEFAULT_CONFIG)

\* WorkspaceConfig.load: the except clause takes json.JSONDecodeError and
\* IOError; what dict.update raises for a value that is no mapping, and the
\* decoding error of open(..., encoding='utf-8'), pass through it
ConfigLoad(file) ==
    CASE file.kind = "absent" -> Returned(DEFAULT_CONFIG)
      [] file.kind = "unreadable" -> Returned(DEFAULT_CONFIG)
      [] file.kind = "invalid_json" -> Returned(DEFAULT_CONFIG)
      [] file.kind = "not_utf8" -> Raised("UnicodeDecodeError")
      [] file.kind = "object" -> Returned(MergedWith(file.keys))
      [] file.kind = "array" ->
            IF file.items = "none" THEN Returned(DEFAULT_CONFIG)
            ELSE IF file.items = "pairs" THEN Returned(MergedWith({"extra"}))
            ELSE Raised("TypeError")
      [] file.kind = "string" ->
            IF file.empty THEN Returned(DEFAULT_CONFIG) ELSE Raised("ValueError")
      [] OTHER -> Raised("TypeError")

\* the configuration of a session that has no workspace_config.json
NoConfig == [file |-> ConfigAbsent, loaded |-> ConfigLoad(ConfigAbsent)]

\* WorkspaceConfig.get_naming_pattern and get_subdir_names: load, then the
\* value of the key; what load raises passes through
GetNamingPattern(file) ==
    LET r == ConfigLoad(file)
    IN IF r.raised # "none" THEN [raised |-> r.raised, value |-> <<>>]
       ELSE [raised |-> "none",
             value |-> IF r.config["naming_pattern"] = "file" THEN file.pattern
                       ELSE DefaultPattern]

GetSubdirNames(file) ==
    LET r == ConfigLoad(file)
    IN IF r.raised # "none" THEN [raised |-> r.raised, value |-> DefaultSubdirs]
       ELSE [raised |-> "none",
             value |-> IF r.config["subdirs"] = "file" THEN file.subdirs
                       ELSE DefaultSubdirs]

(* ------------------------------ file names ----------------------------- *)
\* str.format(basename=...) on one piece of the pattern: the placeholder
\* gives the base name, a field of another name has no keyword argument, a
\* numbered field has no positional argument, a lone brace is no format
FieldError(piece) ==
    CASE piece = "{basename}" -> "none"
      [] piece = "{name}" -> "KeyError"
      [] piece = "{0}" -> "IndexError"
      [] piece = "{" -> "ValueError"
      [] OTHER -> "none"

RECURSIVE FormatFrom(_, _)
\* naming_pattern.format(basename=basename), piece by piece from the left
FormatFrom(pattern, base) ==
    IF pattern = <<>> THEN [raised |-> "none", name |-> <<>>]
    ELSE IF FieldError(Head(pattern)) # "none"
    THEN [raised |-> FieldError(Head(pattern)), name |-> <<>>]
    ELSE LET rest == FormatFrom(Tail(pattern), base)
             piece == IF Head(pattern) = "{basename}" THEN base ELSE Head(pattern)
         IN IF rest.raised # "none" THEN rest
            ELSE [raised |-> "none", name |-> <<piece>> \o rest.name]

\* OutputManager: mask_dir / naming_pattern.format(basename=stem)
SavedMaskFileOf(mask_dir, pattern, file) ==
    LET f == FormatFrom(pattern, file.base)
    IN [raised |-> f.raised, path |-> PathOf(mask_dir, f.name)]

\* a file written into the workspace
WriteFile(files, path, content) ==
    [q \in DOMAIN files \cup {path} |-> IF q = path THEN content ELSE files[q]]

(* -------------------------------- save --------------------------------- *)
\* what the file system does during a save: every write succeeds, the copy
\* of the original image fails, or the write of the mask file fails
SaveOutcomes(mode) == {"ok", "copy_fail", "mask_fail"}

\* name of an image file, as it appears in the OriginalImage folder
NameOf(file) == <<file.base, file.ext>>

\* mask_dir and original_dir of a window whose workspace was not created
NoDir == "None"

Saved == "Mask Saved"
SaveError == "Failed to save mask"
NoMaskToSave == "No mask to save."
NotInitialized == "Workspace not initialized."
\* messages of the two boxes that report a failed save
Reported == {SaveError, NotInitialized}

SaveResult(s, files, origs, message) ==
    [win |-> s, files |-> files, originals |-> origs, message |-> message]

\* variant: goes on to write the mask file when there is no mask
SaveMaskOf_NoMaskCheck(s, files, origs, cfg, outcome) ==
    IF s.image_files = <<>> THEN SaveResult(s, files, origs, "IndexError")
    ELSE SaveResult(s,
           WriteFile(files, MaskFileOf(s.image_files[s.current_index + 1]),
                     IF s.mask = None THEN Corrupt ELSE PngOf(s.mask)),
           origs, Saved)

\* OutputManager.save_mask_with_original: the naming pattern is read from
\* the configuration and formatted, then the original is copied when it is
\* not there yet, then the mask is written
SaveMaskWithOriginal(s, files, origs, cfg, outcome) ==
    LET file == s.image_files[s.current_index + 1]
        pattern == GetNamingPattern(cfg)
        dest == SavedMaskFileOf(s.mask_dir, pattern.value, file)
        copied == origs \cup {NameOf(file)}
    IN IF pattern.raised # "none"
       THEN SaveResult(s, files, origs,
                       IF pattern.raised = "ValueError" THEN SaveError ELSE pattern.raised)
       ELSE IF dest.raised # "none"
       THEN SaveResult(s, files, origs,
                       IF dest.raised = "ValueError" THEN SaveError ELSE dest.raised)
       ELSE IF NameOf(file) \notin origs /\ outcome = "copy_fail"
       THEN SaveResult(s, files, origs, SaveError)
       ELSE IF outcome = "mask_fail" THEN SaveResult(s, files, copied, SaveError)
       ELSE SaveResult(s, WriteFile(files, dest.path, PngOf(s.mask)), copied, Saved)

\* _save_mask: the window, the mask files, the OriginalImage folder and the
\* message box afterwards (or the exception that leaves the handler).  A new
\* workspace saves through the OutputManager; an opened one writes the mask
\* first and then copies the original when it is not there.
SaveMaskOf(s, files, origs, cfg, outcome) ==
    IF s.mask = None THEN SaveResult(s, files, origs, NoMaskToSave)
    ELSE IF s.mask_dir = NoDir THEN SaveResult(s, files, origs, NotInitialized)
    ELSE IF s.image_files = <<>> THEN SaveResult(s, files, origs, "IndexError")
    ELSE IF s.workspace_mode = "create"
    THEN SaveMaskWithOriginal(s, files, origs, cfg, outcome)
    ELSE LET file == s.image_files[s.current_index + 1]
             written == WriteFile(files, PathOf(s.mask_dir, MaskFileOf(file).name),
                                  PngOf(s.mask))
             copied == origs \cup {NameOf(file)}
             copy_fails == NameOf(file) \notin origs /\ outcome = "copy_fail"
         IN IF outcome = "mask_fail" THEN SaveResult(s, files, origs, SaveError)
            ELSE IF copy_fails THEN SaveResult(s, written, origs, SaveError)
            ELSE SaveResult(s, written, copied, Saved)

(* --------------------------- the state machine ------------------------- *)
VARIABLES
    win,         \* the DirectorySegmentation window: its attributes and widgets
    mask_files,  \* the mask files of the workspace, by folder and file name
    originals,   \* the names of the files in the workspace's OriginalImage folder
    config,      \* workspace_config.json and what WorkspaceConfig.load last gave
    ev,          \* history: what the last handler did, for the handlers observed
    gesture,     \* history: the drawing gesture in progress or just completed
    seg,         \* the SegTool inference window with its crop dialog, when it runs
    host         \* the workspace root's directories and the second the clock shows

vars == <<win, mask_files, originals, config, ev, gesture, seg, host>>

\* a session whose workspace is in place: nothing is created under the root
NoHost == [dirs |-> {}, clock |-> 0]

\* pointer positions over the image label
Positions(label) == {Pt(x, y) : x \in 0 .. label.w - 1, y \in 0 .. label.h - 1}
Tools == {"pen", "cursor", "erase"}

\* a mask saved in an earlier session: left pixel marked
SavedMask == [w |-> 2, h |-> 1, px |-> [q \in Pixels(2, 1) |-> IF q[1] = 0 THEN Opaque ELSE 0]]

NoMaskFiles == [q \in {MaskFileOf(AllFiles[i]) : i \in 1 .. Len(AllFiles)} |-> Absent]
\* the OriginalImage folder holding every image of the list: an opened
\* workspace lists that folder, a new one copied the images into it
NamesOf(listing) == {NameOf(listing[i]) : i \in 1 .. Len(listing)}
\* the Mask folder when the window opens: empty for a new workspace
InitMaskFiles(mode) ==
    IF mode = "create" THEN {NoMaskFiles}
    ELSE {[NoMaskFiles EXCEPT ![MaskFileOf(AllFiles[1])] = f] : f \in {Absent, Corrupt, PngOf(SavedMask)}}

\* __init__, for a window whose image label has the given size
NewWindowSized(mode, listing, files, label) ==
    LoadCurrentImage(
        [workspace_mode |-> mode, image_files |-> listing, current_index |-> 0,
         original_pixmap |-> None, mask |-> None,
         undo_stack |-> <<>>, redo_stack |-> <<>>,
         undo_btn |-> FALSE, redo_btn |-> FALSE,
         tool |-> "pen", radius_spin |-> RadiusDefault, zoom_spin |-> ZoomDefault,
         pan_offset |-> Pt(0, 0), pixmap_size |-> NullPixmap, label |-> label,
         label_text |-> "No image available",
         drawing |-> FALSE, last_draw_point |-> None,
         dragging |-> FALSE, drag_start |-> None, pan_start |-> None,
         original_dir |-> DefaultSubdirs.original, mask_dir |-> DefaultSubdirs.mask],
        files)

NewWindow(mode, listing, files) == NewWindowSized(mode, listing, files, Label)

Marked(m) == m # None /\ \E q \in DOMAIN m.px : m.px[q] # 0

NoEvent == [op |-> "none"]
\* what a navigation step started from
NavEvent(op) == [op |-> op, from |-> win.current_index,
                 marked |-> Marked(win.mask),
                 loaded |-> win.original_pixmap # None]

Init ==
    \E mode \in {"create", "open"}, listing \in Listings :
        \E files \in InitMaskFiles(mode) :
            /\ win = NewWindow(mode, listing, files)
            /\ mask_files = files
            /\ originals = NamesOf(listing)
            /\ config = NoConfig
            /\ ev = [op |-> "init"]
            /\ gesture = None
            /\ seg = None
            /\ host = NoHost

MousePress ==
    \E pos \in Positions(win.label) :
        /\ ~win.drawing /\ ~win.dragging
        /\ LET s == MousePressOf(win, pos)
           IN /\ Len(s.undo_stack) <= MaxHist
              /\ win' = s
              /\ ev' = IF s.drawing
                       THEN [op |-> "press_draw", redo |-> Len(win.redo_stack)]
                       ELSE NoEvent
              /\ gesture' = IF s.drawing
                            THEN [before |-> win.mask, undo |-> Len(win.undo_stack),
                                  moved |-> FALSE]
                            ELSE None
        /\ UNCHANGED <<mask_files, originals, config, seg, host>>

MouseMove ==
    \E pos \in Positions(win.label) :
        /\ win.drawing \/ win.dragging
        /\ LET s == MouseMoveOf(win, pos)
           IN /\ s.original_pixmap = None => s.pan_offset.x \in -MaxPan .. MaxPan
              /\ s.original_pixmap = None => s.pan_offset.y \in -MaxPan .. MaxPan
              /\ win' = s
              /\ gesture' = IF gesture = None THEN None
                            ELSE [gesture EXCEPT
                                    !.moved = @ \/ MapLabelPosToImage(win, pos) # None]
        /\ ev' = NoEvent
        /\ UNCHANGED <<mask_files, originals, config, seg, host>>

MouseRelease ==
    /\ win.drawing \/ win.dragging
    /\ win' = MouseReleaseOf(win)
    /\ ev' = IF gesture # None THEN [op |-> "release"] ELSE NoEvent
    /\ UNCHANGED <<mask_files, originals, config, gesture, seg, host>>

ToolChanged ==
    \E t \in Tools \ {win.tool} :
        /\ win' = OnToolChanged(win, t)
        /\ ev' = NoEvent
        /\ gesture' = None
        /\ UNCHANGED <<mask_files, originals, config, seg, host>>

RadiusChanged ==
    \E r \in RadiusSet \ {win.radius_spin} :
        /\ win' = OnRadiusChanged(win, r)
        /\ ev' = NoEvent
        /\ gesture' = None
        /\ UNCHANGED <<mask_files, originals, config, seg, host>>

ZoomChanged ==
    \E z \in ZoomSet \ {win.zoom_spin} :
        /\ win' = OnZoomChanged(win, z)
        /\ ev' = NoEvent
        /\ gesture' = None
        /\ UNCHANGED <<mask_files, originals, config, seg, host>>

Undo ==
    /\ win' = UndoOf(win)
    /\ ev' = NoEvent
    /\ gesture' = None
    /\ UNCHANGED <<mask_files, originals, config, seg, host>>

Redo ==
    /\ win' = RedoOf(win)
    /\ ev' = NoEvent
    /\ gesture' = None
    /\ UNCHANGED <<mask_files, originals, config, seg, host>>

GoNext ==
    /\ win' = GoNextOf(win, mask_files)
    /\ ev' = NavEvent("next")
    /\ gesture' = None
    /\ UNCHANGED <<mask_files, originals, config, seg, host>>

GoPrevious ==
    /\ win' = GoPreviousOf(win, mask_files)
    /\ ev' = NavEvent("previous")
    /\ gesture' = None
    /\ UNCHANGED <<mask_files, originals, config, seg, host>>

SaveMask ==
    \E outcome \in SaveOutcomes(win.workspace_mode) :
        LET r == SaveMaskOf(win, mask_files, originals, config.file, outcome)
        IN /\ win' = r.win
           /\ mask_files' = r.files
           /\ originals' = r.originals
           /\ ev' = NoEvent
           /\ gesture' = None
           /\ UNCHANGED <<config, seg, host>>

Next ==
    \/ MousePress
    \/ MouseMove
    \/ MouseRelease
    \/ ToolChanged
    \/ Undo
    \/ Redo
    \/ GoNext
    \/ GoPrevious
    \/ SaveMask

Spec == Init /\ [][Next]_vars

\* the same window with the zoom and radius spin boxes in use
NextView ==
    \/ Next
    \/ ZoomChanged
    \/ RadiusChanged

SpecView == Init /\ [][NextView]_vars

(* ------------------- the viewport: pan, zoom and resize ---------------- *)
\* The same window over a directory of two larger images and one that does
\* not decode, with the zoom spin box, window resizes and the Cursor tool in
\* use; the pointer is pressed only while the Cursor tool is selected.
ViewFiles == << File("p", ".png", TRUE, 3, 2), File("q", ".png", TRUE, 2, 3),
                File("r", ".png", FALSE, 0, 0) >>
LabelSizes == {[w |-> 2, h |-> 2], [w |-> 3, h |-> 2]}
ViewZooms == {50, ZoomDefault, 300}

InitPan ==
    \E label \in LabelSizes :
        /\ win = NewWindowSized("create", ViewFiles, NoMaskFiles, label)
        /\ mask_files = NoMaskFiles
        /\ originals = NamesOf(ViewFiles)
        /\ config = NoConfig
        /\ ev = [op |-> "init"]
        /\ gesture = None
        /\ seg = None
        /\ host = NoHost

PanPress == win.tool = "cursor" /\ MousePress

ZoomView ==
    \E z \in ViewZooms \ {win.zoom_spin} :
        /\ win' = OnZoomChanged(win, z)
        /\ ev' = NoEvent
        /\ gesture' = None
        /\ UNCHANGED <<mask_files, originals, config, seg, host>>

Resize ==
    \E size \in LabelSizes \ {win.label} :
        /\ win' = ResizeOf(win, size)
        /\ ev' = NoEvent
        /\ gesture' = None
        /\ UNCHANGED <<mask_files, originals, config, seg, host>>

CursorTool ==
    /\ win.tool # "cursor"
    /\ win' = OnToolChanged(win, "cursor")
    /\ ev' = NoEvent
    /\ gesture' = None
    /\ UNCHANGED <<mask_files, originals, config, seg, host>>

NextPan ==
    \/ CursorTool
    \/ PanPress
    \/ MouseMove
    \/ MouseRelease
    \/ ZoomView
    \/ Resize
    \/ GoNext
    \/ GoPrevious

SpecPan == InitPan /\ [][NextPan]_vars

(* ------------------- navigation between flat images -------------------- *)
\* Two images of height 1 in a 2 x 2 label.  At 150 % the height asked for
\* stays int(1 * 1.5) = 1, so the aspect-keeping scale leaves the width at
\* the image's own: the pixmap shown is narrower than the width asked for.
NavFiles == << File("p", ".png", TRUE, 8, 1), File("q", ".png", TRUE, 4, 1) >>
NavLabel == [w |-> 2, h |-> 2]
NavZooms == {ZoomDefault, 150}

InitNav ==
    /\ win = NewWindowSized("create", NavFiles, NoMaskFiles, NavLabel)
    /\ mask_files = NoMaskFiles
    /\ originals = NamesOf(NavFiles)
    /\ config = NoConfig
    /\ ev = [op |-> "init"]
    /\ gesture = None
    /\ seg = None
    /\ host = NoHost

ZoomNav ==
    \E z \in NavZooms \ {win.zoom_spin} :
        /\ win' = OnZoomChanged(win, z)
        /\ ev' = NoEvent
        /\ gesture' = None
        /\ UNCHANGED <<mask_files, originals, config, seg, host>>

NextNav ==
    \/ CursorTool
    \/ PanPress
    \/ MouseMove
    \/ MouseRelease
    \/ ZoomNav
    \/ GoNext
    \/ GoPrevious

SpecNav == InitNav /\ [][NextNav]_vars

(* ----------------------- strokes of the thin brush --------------------- *)
\* The same window over one image of 3 x 1 pixels in a label of 4 x 1, so
\* that the rightmost pointer position lies outside the image, drawing with
\* the Pen at the smallest radius, where a segment marks other pixels than a
\* dab at its end point does.
StrokeFiles == << File("a", ".png", TRUE, 3, 1) >>
StrokeLabel == [w |-> 4, h |-> 1]

InitStroke ==
    /\ win = NewWindowSized("create", StrokeFiles, NoMaskFiles, StrokeLabel)
    /\ mask_files = NoMaskFiles
    /\ originals = NamesOf(StrokeFiles)
    /\ config = NoConfig
    /\ ev = [op |-> "init"]
    /\ gesture = None
    /\ seg = None
    /\ host = NoHost

ThinBrush ==
    /\ win.radius_spin # RadiusMin
    /\ win.undo_stack = <<>>
    /\ win' = OnRadiusChanged(win, RadiusMin)
    /\ ev' = NoEvent
    /\ gesture' = None
    /\ UNCHANGED <<mask_files, originals, config, seg, host>>

StrokePress ==
    /\ win.radius_spin = RadiusMin
    /\ MousePress

NextStroke ==
    \/ ThinBrush
    \/ StrokePress
    \/ MouseMove
    \/ MouseRelease

SpecStroke == InitStroke /\ [][NextStroke]_vars

(* ------------------------- dots on a square image ---------------------- *)
\* A 3 x 3 image shown at 100 % in a label of its size; the Pen is pressed
\* and released without moving, with a radius of 1 or 2, and undone.
DotFiles == << File("a", ".png", TRUE, 3, 3) >>
DotLabel == [w |-> 3, h |-> 3]
DotRadii == {RadiusMin, RadiusMin + 1}

InitDot ==
    /\ win = NewWindowSized("create", DotFiles, NoMaskFiles, DotLabel)
    /\ mask_files = NoMaskFiles
    /\ originals = NamesOf(DotFiles)
    /\ config = NoConfig
    /\ ev = [op |-> "init"]
    /\ gesture = None
    /\ seg = None
    /\ host = NoHost

DotRadius ==
    \E r \in DotRadii \ {win.radius_spin} :
        /\ win' = OnRadiusChanged(win, r)
        /\ ev' = NoEvent
        /\ gesture' = None
        /\ UNCHANGED <<mask_files, originals, config, seg, host>>

DotPress ==
    /\ win.radius_spin \in DotRadii
    /\ MousePress

NextDot ==
    \/ DotRadius
    \/ DotPress
    \/ MouseRelease
    \/ Undo

SpecDot == InitDot /\ [][NextDot]_vars

(* ----------------------- saving into a new workspace ------------------- *)
\* A new workspace whose OriginalImage folder holds any part of the image
\* list: _copy_all_images_to_workspace stops at the first copy that fails and
\* only prints a warning.  The Pen marks the mask, Save Mask saves it.
InitSave ==
    \E held \in SUBSET NamesOf(AllFiles) :
        /\ win = NewWindow("create", AllFiles, NoMaskFiles)
        /\ mask_files = NoMaskFiles
        /\ originals = held
        /\ config = NoConfig
        /\ ev = [op |-> "init"]
        /\ gesture = None
        /\ seg = None
        /\ host = NoHost

NextSave ==
    \/ MousePress
    \/ MouseRelease
    \/ GoNext
    \/ SaveMask

SpecSave == InitSave /\ [][NextSave]_vars

(* -------------------------- image discovery ---------------------------- *)
\* entries a directory can hold, in the order sorted() gives their names
\* (by code point: "." before capitals before small letters):
\* ".png", "B.PNG", "a.jpg", "b.TIFF", "b.png.bak".
\* base and ext are what os.path.splitext gives: a leading dot starts no
\* extension, and the extension is the last one.
DirEntries == << File(".png", "", TRUE, 1, 1), File("B", ".PNG", TRUE, 1, 1),
                 File("a", ".jpg", TRUE, 1, 1), File("b", ".TIFF", TRUE, 1, 1),
                 File("b.png", ".bak", FALSE, 0, 0) >>
Rank(entry) == CHOOSE i \in 1 .. Len(DirEntries) : DirEntries[i] = entry

\* str.lower() on the extensions above
Lower(ext) ==
    CASE ext = ".PNG" -> ".png"
      [] ext = ".TIFF" -> ".tiff"
      [] OTHER -> ext

Supported == {".png", ".jpg", ".jpeg", ".bmp", ".tif", ".tiff"}
IsSupported(entry) == Lower(entry.ext) \in Supported
NameBefore(e1, e2) == Rank(e1) < Rank(e2)

\* variant: keeps the order of the directory listing
DiscoverImages_Unsorted(items) == SelectSeq(items, IsSupported)

\* _discover_images: sorted(os.listdir(...)), then the supported extensions
DiscoverImages(items) == SelectSeq(SortSeq(items, NameBefore), IsSupported)

\* os.listdir: the entries of the directory, each once, in any order
RECURSIVE Orders(_)
Orders(S) ==
    IF S = {} THEN {<<>>}
    ELSE UNION {{<<e>> \o rest : rest \in Orders(S \ {e})} : e \in S}
ListDirs == UNION {Orders(S) : S \in SUBSET {DirEntries[i] : i \in 1 .. Len(DirEntries)}}

\* a new workspace over a directory: the window lists what was discovered
InitDiscover ==
    \E items \in ListDirs :
        /\ win = NewWindow("create", DiscoverImages(items), NoMaskFiles)
        /\ mask_files = NoMaskFiles
        /\ originals = NamesOf(DiscoverImages(items))
        /\ config = NoConfig
        /\ ev = [op |-> "init", items |-> items]
        /\ gesture = None
        /\ seg = None
        /\ host = NoHost

\* Next and Prev walk the list
StepNext ==
    /\ win' = GoNextOf(win, mask_files)
    /\ UNCHANGED <<mask_files, originals, config, ev, gesture, seg, host>>

StepPrevious ==
    /\ win' = GoPreviousOf(win, mask_files)
    /\ UNCHANGED <<mask_files, originals, config, ev, gesture, seg, host>>

NextDiscover ==
    \/ StepNext
    \/ StepPrevious

SpecDiscover == InitDiscover /\ [][NextDiscover]_vars

(* ------------------ a configured workspace, saved and reopened --------- *)
\* A new workspace under a workspace_config.json that may give its own naming
\* pattern and sub-folder names; initialize_structure creates the folders and
\* copies the images, or fails with OSError and leaves the window without
\* folders.  The Pen marks the mask, Save Mask saves it, and the workspace is
\* opened again with Open Workspace.
NamingFiles == << File("a", ".png", TRUE, 2, 1), File("b", ".png", TRUE, 1, 1) >>
Patterns == {DefaultPattern, <<"{basename}", "_seg.png">>, <<"mask.png">>,
             <<"{name}", ".png">>, <<"{0}", ".png">>, <<"{", ".png">>}
SubdirChoices == {DefaultSubdirs, [original |-> "Images", mask |-> "Masks"]}
NamingConfigs ==
    {ConfigAbsent} \cup
    {ObjectFile(K, pattern, subdirs) :
        K \in SUBSET {"naming_pattern", "subdirs"},
        pattern \in Patterns, subdirs \in SubdirChoices}

\* __init__ in create mode: the folders named by the configuration, or none
WithWorkspace(s, cfg, created) ==
    [s EXCEPT !.original_dir = IF created THEN GetSubdirNames(cfg).value.original ELSE NoDir,
              !.mask_dir = IF created THEN GetSubdirNames(cfg).value.mask ELSE NoDir]

\* Open Workspace on the workspace of a window: the images of its
\* OriginalImage folder in sorted order, the masks of its Mask folder
ReopenOf(s, files, origs) ==
    LET InFolder(f) == NameOf(f) \in origs
        listing == IF s.original_dir = DefaultSubdirs.original
                   THEN SelectSeq(s.image_files, InFolder)
                   ELSE <<>>
    IN [NewWindow("open", listing, files) EXCEPT !.label = s.label]

InitNaming ==
    \E cfg \in NamingConfigs, created \in BOOLEAN :
        /\ win = WithWorkspace(NewWindow("create", NamingFiles, NoMaskFiles), cfg, created)
        /\ mask_files = NoMaskFiles
        /\ originals = IF created THEN NamesOf(NamingFiles) ELSE {}
        /\ config = [file |-> cfg, loaded |-> ConfigLoad(cfg)]
        /\ ev = [op |-> "init"]
        /\ gesture = None
        /\ seg = None
        /\ host = NoHost

Reopen ==
    /\ win.workspace_mode = "create"
    /\ win.mask_dir # NoDir
    /\ ~win.drawing /\ ~win.dragging
    /\ win' = ReopenOf(win, mask_files, originals)
    /\ ev' = [op |-> "init"]
    /\ gesture' = None
    /\ UNCHANGED <<mask_files, originals, config, seg, host>>

NextNaming ==
    \/ MousePress
    \/ MouseRelease
    \/ GoNext
    \/ SaveMask
    \/ Reopen

SpecNaming == InitNaming /\ [][NextNaming]_vars

(* -------------------- loading the workspace configuration -------------- *)
\* WorkspaceConfig.load for every content of workspace_config.json; no
\* window is involved (an opened workspace with no images stands in).
InitConfig ==
    \E file \in ConfigFiles :
        /\ config = [file |-> file, loaded |-> None]
        /\ win = NewWindow("open", <<>>, NoMaskFiles)
        /\ mask_files = NoMaskFiles
        /\ originals = {}
        /\ ev = [op |-> "init"]
        /\ gesture = None
        /\ seg = None
        /\ host = NoHost

LoadConfig ==
    /\ config.loaded = None
    /\ config' = [config EXCEPT !.loaded = ConfigLoad(config.file)]
    /\ UNCHANGED <<win, mask_files, originals, ev, gesture, seg, host>>

NextConfig == LoadConfig

SpecConfig == InitConfig /\ [][NextConfig]_vars

(* ------------------------- creating a workspace ------------------------ *)
\* The clock counts half seconds; the name of a workspace made on a name
\* conflict carries the time to the second (strftime "%Y%m%d_%H%M%S").
TicksPerSecond == 2
Timestamp(clock) == clock \div TicksPerSecond

\* a JSON object that also gives create_timestamp_on_conflict
ConflictFile(keys, subdirs, on_conflict) ==
    [kind |-> "object", keys |-> keys, pattern |-> DefaultPattern,
     subdirs |-> IF "subdirs" \in keys THEN subdirs ELSE DefaultSubdirs,
     on_conflict |-> on_conflict]

\* values of "subdirs" in the file: both names, one of them, or none
SubdirObjects ==
    {[original |-> "Images", mask |-> "Masks"], [original |-> "Images"],
     [mask |-> "Masks"], [k \in {} |-> ""]}
CreateConfigs ==
    {ConfigAbsent} \cup
    {ConflictFile(K, subdirs, on_conflict) :
        K \in SUBSET {"subdirs", "create_timestamp_on_conflict"},
        subdirs \in SubdirObjects, on_conflict \in BOOLEAN}

\* config.get("create_timestamp_on_conflict", True) on what load returns
GetTimestampOnConflict(file) ==
    LET r == ConfigLoad(file)
    IN IF r.raised # "none" THEN [raised |-> r.raised, value |-> TRUE]
       ELSE [raised |-> "none",
             value |-> IF r.config["create_timestamp_on_conflict"] = "file"
                       THEN file.on_conflict ELSE TRUE]

\* the directory of the source's workspace under the workspace root, and the
\* one made on a name conflict
BaseWorkspace(name) == <<name>>
TimestampedWorkspace(name, clock) == <<name, Timestamp(clock)>>

Created(h, workspace_dir, subdirs) ==
    [raised |-> "none", host |-> [h EXCEPT !.dirs = @ \cup {workspace_dir}],
     workspace_dir |-> workspace_dir, subdirs |-> subdirs]
NotCreated(h, exception) ==
    [raised |-> exception, host |-> h, workspace_dir |-> None, subdirs |-> None]

\* OutputManager.__init__ and initialize_structure: the sub-folder names come
\* from the configuration; when the base directory exists the configuration
\* is read again and, if it says so, the directory gets the timestamp in
\* its name; the two sub-folders are made with exist_ok
InitializeStructure(h, file, name, mkdir) ==
    LET subdirs == GetSubdirNames(file)
        base == BaseWorkspace(name)
        on_conflict == GetTimestampOnConflict(file)
        workspace_dir == IF base \in h.dirs /\ on_conflict.value
                         THEN TimestampedWorkspace(name, h.clock)
                         ELSE base
    IN IF subdirs.raised # "none" THEN NotCreated(h, subdirs.raised)
       ELSE IF base \in h.dirs /\ on_conflict.raised # "none"
       THEN NotCreated(h, on_conflict.raised)
       ELSE IF {"original", "mask"} \ DOMAIN subdirs.value # {}
       THEN NotCreated(h, "KeyError")
       ELSE IF mkdir = "fails" THEN NotCreated(h, "OSError")
       ELSE Created(h, workspace_dir, subdirs.value)

\* New workspaces on one source directory, one after the other, while the
\* clock runs.  Each builds a window in create mode: OSError is caught and
\* leaves the window without folders, any other exception leaves __init__.
SourceName == "D"
InitCreate ==
    \E file \in CreateConfigs, dirs \in {{}, {BaseWorkspace(SourceName)}} :
        /\ host = [dirs |-> dirs, clock |-> 0]
        /\ config = [file |-> file, loaded |-> ConfigLoad(file)]
        /\ win = None
        /\ mask_files = NoMaskFiles
        /\ originals = {}
        /\ ev = [op |-> "init"]
        /\ gesture = None
        /\ seg = None

NewWorkspace ==
    \E mkdir \in {"ok", "fails"} :
        LET r == InitializeStructure(host, config.file, SourceName, mkdir)
            built == NewWindow("create", NamingFiles, NoMaskFiles)
        IN /\ host' = r.host
           /\ win' = IF r.raised = "none"
                     THEN [built EXCEPT !.original_dir = r.subdirs.original,
                                        !.mask_dir = r.subdirs.mask]
                     ELSE IF r.raised = "OSError"
                     THEN [built EXCEPT !.original_dir = NoDir, !.mask_dir = NoDir]
                     ELSE win
           /\ originals' = IF r.raised = "none" THEN NamesOf(NamingFiles) ELSE originals
           /\ ev' = [op |-> "new_workspace", existed |-> host.dirs,
                     raised |-> r.raised, workspace_dir |-> r.workspace_dir]
           /\ UNCHANGED <<mask_files, config, gesture, seg>>

Tick ==
    /\ host.clock < MaxClock
    /\ host' = [host EXCEPT !.clock = @ + 1]
    /\ UNCHANGED <<win, mask_files, originals, config, ev, gesture, seg>>

NextCreate ==
    \/ NewWorkspace
    \/ Tick

SpecCreate == InitCreate /\ [][NextCreate]_vars

(* ------------------------- the inference window ------------------------ *)
\* An image array of the SegTool window: the file it was read from, its
\* size, how many times it was cropped and whether it was resampled for the
\* network.  The contrast-enhanced array carries the same description as the
\* array it was computed from.
UsImage(file, w, h) == [file |-> file, w |-> w, h |-> h, crops |-> 0, sampled |-> FALSE]
UsFiles == {UsImage("A", 3, 2), UsImage("B", 2, 2)}

\* SegTool.initUI: no image attributes yet, contrast not activated
NewSegTool ==
    [us_img_array |-> None, contrast_image_array |-> None,
     contrast_activated |-> FALSE, seg_img_array |-> None,
     crop |-> None, raised |-> "none"]

\* an exception leaves the handler
SegRaised(s, exception) == [s EXCEPT !.raised = exception]

\* getUsFile: the file chosen in the dialog is read and shown; a cancelled
\* dialog gives the empty name, which Image.open cannot open
GetUsFileOf(s, chosen) ==
    IF chosen = None THEN SegRaised(s, "FileNotFoundError")
    ELSE [s EXCEPT !.us_img_array = chosen]

\* contrastImage: equa_hist of the current array, kept beside it
ContrastImageOf(s) ==
    IF s.us_img_array = None THEN SegRaised(s, "AttributeError")
    ELSE [s EXCEPT !.contrast_image_array = s.us_img_array,
                   !.contrast_activated = TRUE]

\* cropTool.__init__: the dialog over the current array; begin and
\* destination are null points, no coordinates and no cropped image yet
NewCropTool(image) ==
    [image_to_crop |-> image, begin |-> Pt(0, 0), destination |-> Pt(0, 0),
     left_down |-> FALSE, coordinates |-> None, croped_img |-> None]

\* SegTool.cropImage up to cropWidget.exec(): the modal dialog opens
SegTool_cropImage(s) ==
    IF s.us_img_array = None THEN SegRaised(s, "AttributeError")
    ELSE [s EXCEPT !.crop = NewCropTool(s.us_img_array)]

\* QPoint.manhattanLength
ManhattanLength(p) == (IF p.x >= 0 THEN p.x ELSE -p.x) + (IF p.y >= 0 THEN p.y ELSE -p.y)

\* cropTool.mousePressEvent and mouseMoveEvent with the left button
CropMousePressOf(c, pos) ==
    [c EXCEPT !.begin = pos, !.destination = pos, !.left_down = TRUE]

CropMouseMoveOf(c, pos) ==
    IF c.left_down THEN [c EXCEPT !.destination = pos] ELSE c

\* cropTool.saveCoordinates
SaveCoordinates(c, x_begin, y_begin, x_destination, y_destination) ==
    [c EXCEPT !.coordinates = [x_begin |-> x_begin, y_begin |-> y_begin,
                               x_destination |-> x_destination,
                               y_destination |-> y_destination]]

\* cropTool.mouseReleaseEvent of the left button: the point nearer to the
\* origin by Manhattan length comes first; at equal lengths the third branch
\* tests event.buttons(), which no longer holds the button released
CropMouseReleaseOf(c) ==
    LET up == [c EXCEPT !.left_down = FALSE]
    IN IF ManhattanLength(c.begin) < ManhattanLength(c.destination)
       THEN SaveCoordinates(up, c.begin.x, c.begin.y, c.destination.x, c.destination.y)
       ELSE IF ManhattanLength(c.begin) > ManhattanLength(c.destination)
       THEN SaveCoordinates(up, c.destination.x, c.destination.y, c.begin.x, c.begin.y)
       ELSE up

\* Image.crop((left, top, right, bottom)) on a box with right >= left and
\* bottom >= top
CropOf(image, box) ==
    [image EXCEPT !.w = box.x_destination - box.x_begin,
                  !.h = box.y_destination - box.y_begin,
                  !.crops = @ + 1]

\* cropTool.cropImage, the dialog's button, followed by what SegTool.cropImage
\* does when exec() returns: sendImage becomes the current array.  Without
\* stored coordinates the slot raises.  For a box with right < left or
\* bottom < top the library either raises or gives an empty image,
\* depending on its version.
CropTool_cropImage(s, library) ==
    LET c == s.crop
        box == c.coordinates
    IN IF box = None THEN SegRaised(s, "AttributeError")
       ELSE IF box.x_destination < box.x_begin \/ box.y_destination < box.y_begin
       THEN IF library = "raises" THEN SegRaised(s, "ValueError")
            ELSE [s EXCEPT !.us_img_array =
                               [c.image_to_crop EXCEPT
                                   !.w = Max(0, box.x_destination - box.x_begin),
                                   !.h = Max(0, box.y_destination - box.y_begin),
                                   !.crops = @ + 1],
                           !.crop = None]
       ELSE [s EXCEPT !.us_img_array = CropOf(c.image_to_crop, box), !.crop = None]

\* the dialog is closed without its button: sendImage finds no croped_img
CropTool_close(s) == SegRaised([s EXCEPT !.crop = None], "AttributeError")

\* the array runSegmentation hands to resize_and_sample and make_prediction
PredictionInput(s) ==
    IF ~s.contrast_activated THEN s.us_img_array ELSE s.contrast_image_array

\* runSegmentation: the plain array or the contrast array is resampled in
\* place and predicted from
RunSegmentationOf(s) ==
    IF PredictionInput(s) = None THEN SegRaised(s, "AttributeError")
    ELSE LET sized == [PredictionInput(s) EXCEPT !.sampled = TRUE]
         IN IF ~s.contrast_activated
            THEN [s EXCEPT !.us_img_array = sized, !.seg_img_array = sized]
            ELSE [s EXCEPT !.contrast_image_array = sized, !.seg_img_array = sized]

\* The SegTool window alone.  An exception that leaves a slot ends the
\* program; while the modal crop dialog is open only the dialog takes events.
InitSeg ==
    /\ seg = NewSegTool
    /\ win = None
    /\ mask_files = NoMaskFiles
    /\ originals = {}
    /\ config = NoConfig
    /\ ev = [op |-> "init"]
    /\ gesture = None
    /\ host = NoHost

SegIdle == seg.raised = "none" /\ seg.crop = None
CropOpen == seg.raised = "none" /\ seg.crop # None
\* pointer positions over the crop dialog, which has the size of the image
CropPositions(c) ==
    {Pt(x, y) : x \in 0 .. c.image_to_crop.w - 1, y \in 0 .. c.image_to_crop.h - 1}

Browse ==
    /\ SegIdle
    /\ \E chosen \in UsFiles \cup {None} : seg' = GetUsFileOf(seg, chosen)
    /\ UNCHANGED <<win, mask_files, originals, config, ev, gesture, host>>

ImproveContrast ==
    /\ SegIdle
    /\ seg' = ContrastImageOf(seg)
    /\ UNCHANGED <<win, mask_files, originals, config, ev, gesture, host>>

CropImage ==
    /\ SegIdle
    /\ seg.us_img_array # None => seg.us_img_array.crops < MaxCrops
    /\ seg' = SegTool_cropImage(seg)
    /\ UNCHANGED <<win, mask_files, originals, config, ev, gesture, host>>

CropMousePress ==
    /\ CropOpen /\ ~seg.crop.left_down
    /\ \E pos \in CropPositions(seg.crop) :
          seg' = [seg EXCEPT !.crop = CropMousePressOf(@, pos)]
    /\ UNCHANGED <<win, mask_files, originals, config, ev, gesture, host>>

CropMouseMove ==
    /\ CropOpen /\ seg.crop.left_down
    /\ \E pos \in CropPositions(seg.crop) :
          seg' = [seg EXCEPT !.crop = CropMouseMoveOf(@, pos)]
    /\ UNCHANGED <<win, mask_files, originals, config, ev, gesture, host>>

CropMouseRelease ==
    /\ CropOpen /\ seg.crop.left_down
    /\ seg' = [seg EXCEPT !.crop = CropMouseReleaseOf(@)]
    /\ UNCHANGED <<win, mask_files, originals, config, ev, gesture, host>>

CropButton ==
    /\ CropOpen /\ ~seg.crop.left_down
    /\ \E library \in {"raises", "empty"} : seg' = CropTool_cropImage(seg, library)
    /\ UNCHANGED <<win, mask_files, originals, config, ev, gesture, host>>

CropClose ==
    /\ CropOpen /\ ~seg.crop.left_down
    /\ seg' = CropTool_close(seg)
    /\ UNCHANGED <<win, mask_files, originals, config, ev, gesture, host>>

StartSegmentation ==
    /\ SegIdle
    /\ seg' = RunSegmentationOf(seg)
    /\ UNCHANGED <<win, mask_files, originals, config, ev, gesture, host>>

NextSeg ==
    \/ Browse
    \/ ImproveContrast
    \/ CropImage
    \/ CropMousePress
    \/ CropMouseMove
    \/ CropMouseRelease
    \/ CropButton
    \/ CropClose
    \/ StartSegmentation

SpecSeg == InitSeg /\ [][NextSeg]_vars

(* ------------------------------ properties ----------------------------- *)
HistoryOf(s) == <<s.mask, s.undo_stack, s.redo_stack>>

RECURSIVE Reverse(_)
Reverse(q) == IF q = <<>> THEN <<>> ELSE Append(Reverse(Tail(q)), Head(q))

\* the mask states in time order: older ones, the current one, undone ones
Timeline(s) ==
    s.undo_stack \o (IF s.mask = None THEN <<>> ELSE <<s.mask>>) \o Reverse(s.redo_stack)

RECURSIVE NextTimes(_, _, _)
NextTimes(i, n, k) == IF k = 0 THEN i ELSE NextTimes(NextIndex(i, n), n, k - 1)

Navigated == ev.op \in {"next", "previous"}
Loaded == ev.op \in {"init", "next", "previous"}
CurrentFile == win.image_files[win.current_index + 1]

\* the mask a successful load of an image of size w x h gives for mask file f
MaskFromFile(f, w, h) ==
    IF f.kind \in {"absent", "corrupt"} THEN BlankMask(w, h)
    ELSE IF f.w = w /\ f.h = h THEN [w |-> w, h |-> h, px |-> f.px]
    ELSE ScaleMask([w |-> f.w, h |-> f.h, px |-> f.px], w, h)

\* C1: with a mask present and a non-empty undo stack, _undo followed by _redo
\* gives back the same mask, the same undo stack and the same redo stack.
C1_UndoRedoRestores ==
    (win.mask # None /\ win.undo_stack # <<>>)
        => HistoryOf(RedoOf(UndoOf(win))) = HistoryOf(win)

C1_Witness ==
    /\ win.mask # None /\ win.undo_stack # <<>>
    /\ Top(win.undo_stack) # win.mask
    /\ UndoOf(win).mask # win.mask

\* C2: a pointer-down that starts a stroke leaves the redo stack empty, and a
\* redo right after it changes neither the mask nor a stack.
C2_StrokeClearsRedo ==
    ev.op = "press_draw"
        => /\ win.redo_stack = <<>>
           /\ HistoryOf(RedoOf(win)) = HistoryOf(win)

C2_Witness == ev.op = "press_draw" /\ ev.redo > 0 /\ win.redo_stack = <<>>

\* C3: after _go_next or _go_previous on a non-empty list both history stacks
\* are empty, whether or not the selected image decodes.
C3_SwitchClearsHistory ==
    (Navigated /\ win.image_files # <<>>)
        => (win.undo_stack = <<>> /\ win.redo_stack = <<>>)

\* C4: a mask is present only while an image is loaded, and has its size.
C4_MaskMatchesImage ==
    win.mask # None
        => /\ win.original_pixmap # None
           /\ win.mask.w = win.original_pixmap.w
           /\ win.mask.h = win.original_pixmap.h

C6_OneSnapshotPerGesture ==
    (ev.op = "release" /\ gesture # None)
        => /\ Len(win.undo_stack) = gesture.undo + 1
           /\ UndoOf(win).mask = gesture.before

C6_Witness ==
    /\ ev.op = "release" /\ gesture # None /\ gesture.moved
    /\ win.mask # gesture.before

\* C7: the index stays in [0, n); next adds one and previous subtracts one
\* modulo n, each undoing the other; n nexts come back to the same index; with
\* three images next, next, previous from 0 ends at 1; an empty list is left alone.
C7_ModularNavigation ==
    LET n == Len(win.image_files)
        i == win.current_index
    IN /\ n >= 1 => i \in 0 .. n - 1
       /\ (n >= 1 /\ ev.op = "next")
            => ((i - ev.from - 1) % n = 0 /\ PreviousIndex(i, n) = ev.from)
       /\ (n >= 1 /\ ev.op = "previous")
            => ((ev.from - i - 1) % n = 0 /\ NextIndex(i, n) = ev.from)
       /\ n >= 1 => NextTimes(i, n, n) = i
       /\ n = 3 => PreviousIndex(NextIndex(NextIndex(0, n), n), n) = 1
       /\ n = 0 => (GoNextOf(win, mask_files) = win /\ GoPreviousOf(win, mask_files) = win)

C7_Witness ==
    /\ ev.op = "previous" /\ ev.from = 0
    /\ Len(win.image_files) >= 3
    /\ win.current_index = Len(win.image_files) - 1

\* C8: a navigation step writes no mask file and leaves either no mask or the
\* mask a fresh load gives: blank for a new workspace, the saved mask file for
\* an opened one; nothing painted before the step remains.
C8_SwitchDiscardsEdits ==
    [][(ev'.op \in {"next", "previous"} /\ win.image_files # <<>>)
          => /\ mask_files' = mask_files
             /\ \/ win'.mask = None
                \/ /\ win'.original_pixmap # None
                   /\ win'.mask =
                        IF win.workspace_mode = "create"
                        THEN BlankMask(win'.original_pixmap.w, win'.original_pixmap.h)
                        ELSE MaskFromFile(
                               mask_files[MaskFileOf(win'.image_files[win'.current_index + 1])],
                               win'.original_pixmap.w, win'.original_pixmap.h)]_vars

C8_Witness ==
    /\ Navigated /\ ev.marked /\ win.workspace_mode = "create"
    /\ win.mask # None /\ ~Marked(win.mask)
    /\ \A q \in DOMAIN mask_files : mask_files[q] = Absent

\* C9: a load whose image does not decode leaves the index where navigation
\* put it, no image and no mask; a load whose image decodes leaves the image
\* and a mask of its size, also when the previous load had failed.
C9_DecodeFailure ==
    (Loaded /\ win.image_files # <<>>)
        => /\ ev.op = "next"
                => win.current_index = NextIndex(ev.from, Len(win.image_files))
           /\ ev.op = "previous"
                => win.current_index = PreviousIndex(ev.from, Len(win.image_files))
           /\ ev.op = "init" => win.current_index = 0
           /\ IF CurrentFile.ok
              THEN /\ win.original_pixmap = [w |-> CurrentFile.w, h |-> CurrentFile.h]
                   /\ win.mask # None
                   /\ win.mask.w = CurrentFile.w /\ win.mask.h = CurrentFile.h
              ELSE /\ win.original_pixmap = None
                   /\ win.mask = None
                   /\ win.label_text = "Unable to load image"

C9_Witness ==
    /\ Navigated /\ ~ev.loaded /\ win.image_files # <<>>
    /\ win.original_pixmap # None /\ win.mask # None

\* C10: in an opened workspace a successful load leaves a mask of the image's
\* size: blank when the mask file is absent or unreadable, the file's content
\* when its size matches, the content rescaled to the image size otherwise.
C10_OpenModeMask ==
    (Loaded /\ win.workspace_mode = "open" /\ win.original_pixmap # None)
        => /\ win.mask # None
           /\ win.mask.w = CurrentFile.w /\ win.mask.h = CurrentFile.h
           /\ DOMAIN win.mask.px = Pixels(CurrentFile.w, CurrentFile.h)
           /\ win.mask = MaskFromFile(mask_files[MaskFileOf(CurrentFile)],
                                      CurrentFile.w, CurrentFile.h)

C10_Witness ==
    /\ Loaded /\ win.workspace_mode = "open" /\ win.original_pixmap # None
    /\ mask_files[MaskFileOf(CurrentFile)].kind = "png"
    /\ mask_files[MaskFileOf(CurrentFile)].w # CurrentFile.w
    /\ win.mask.w = CurrentFile.w /\ Marked(win.mask)

(* ------------------------ properties of the viewport ------------------- *)
ImageShown == win.original_pixmap # None

\* C11: with an image loaded the pan offset lies, on each axis, between 0 and
\* max(0, scaled size - label size), for the scaled pixmap as well as for the
\* scaled size asked for; it is 0 on an axis where the scaled image fits.
C11_PanWithinBounds ==
    ImageShown
        => LET r == Render(win)
           IN /\ win.pan_offset.x \in 0 .. Max(0, r.scaled_pixmap.w - win.label.w)
              /\ win.pan_offset.y \in 0 .. Max(0, r.scaled_pixmap.h - win.label.h)
              /\ win.pan_offset.x \in 0 .. Max(0, r.scaled_width - win.label.w)
              /\ win.pan_offset.y \in 0 .. Max(0, r.scaled_height - win.label.h)
              /\ r.scaled_width <= win.label.w => win.pan_offset.x = 0
              /\ r.scaled_height <= win.label.h => win.pan_offset.y = 0

C11_Witness ==
    /\ ImageShown /\ win.dragging
    /\ win.pan_offset.x > 0
    /\ win.pan_offset.x = Render(win).scaled_pixmap.w - win.label.w
    /\ Render(win).scaled_height <= win.label.h

\* the pan offset that keeps the image point at the label centre, times the
\* old zoom: (pan + half) / zoom is the same before and after
CenterPan100(pan, half, zoom, new_zoom) == (pan + half) * new_zoom - half * zoom

\* on one axis: if the centre-keeping pan lies within the new bounds, the new
\* pan is within one label pixel of it
KeepsCenter(pan, new_pan, half, zoom, new_zoom, new_max) ==
    LET ideal == CenterPan100(pan, half, zoom, new_zoom)
    IN (0 <= ideal /\ ideal <= new_max * zoom)
           => /\ new_pan * zoom - ideal <= zoom
              /\ ideal - new_pan * zoom <= zoom

\* C12: a zoom change keeps the image point shown at the label centre, on
\* every axis where the pan that does so lies within the new bounds.
C12_ZoomKeepsCenter ==
    [][(ImageShown /\ win'.zoom_spin # win.zoom_spin)
          => /\ KeepsCenter(win.pan_offset.x, win'.pan_offset.x, win.label.w \div 2,
                            win.zoom_spin, win'.zoom_spin, Render(win').max_x)
             /\ KeepsCenter(win.pan_offset.y, win'.pan_offset.y, win.label.h \div 2,
                            win.zoom_spin, win'.zoom_spin, Render(win').max_y)]_vars

\* C13 as stated: the scaled size is the product rounded to the nearest integer.
C13_ScaledSizeRounded ==
    ImageShown
        => /\ Render(win).scaled_width
                = (win.original_pixmap.w * win.zoom_spin + 50) \div 100
           /\ Render(win).scaled_height
                = (win.original_pixmap.h * win.zoom_spin + 50) \div 100

\* n is the product d * zoom / 100 cut off towards zero (or, where the
\* floating-point product falls short of an integral value, one less)
Truncated(n, d, zoom) == n * 100 <= d * zoom /\ d * zoom <= (n + 1) * 100

\* C13, amended: the scaled size asked for is the product cut off towards
\* zero, not rounded; mouseMoveEvent and _on_zoom_changed clamp the pan against
\* it; the scaled pixmap is that size fitted with the aspect ratio kept (null
\* when a side asked for is 0) and _update_image_display clamps against it.
C13_ScaledSizeTruncated ==
    ImageShown
        => LET r == Render(win)
               W == win.original_pixmap.w
               H == win.original_pixmap.h
           IN /\ Truncated(r.scaled_width, W, win.zoom_spin)
              /\ Truncated(r.scaled_height, H, win.zoom_spin)
              /\ IF r.scaled_width = 0 \/ r.scaled_height = 0
                 THEN r.scaled_pixmap = NullPixmap
                 ELSE /\ r.scaled_pixmap.w \in 1 .. r.scaled_width
                      /\ r.scaled_pixmap.h \in 1 .. r.scaled_height
                      /\ r.scaled_pixmap.w = r.scaled_width
                            \/ r.scaled_pixmap.h = r.scaled_height
              /\ r.max_x = Max(0, r.scaled_pixmap.w - win.label.w)
              /\ r.max_y = Max(0, r.scaled_pixmap.h - win.label.h)
              /\ \A pos \in Positions(win.label) :
                    (win.dragging /\ win.tool = "cursor")
                        => LET m == MouseMoveOf(win, pos)
                           IN /\ m.pan_offset.x <= Max(0, r.scaled_width - win.label.w)
                              /\ m.pan_offset.y <= Max(0, r.scaled_height - win.label.h)
              /\ \A z \in ViewZooms :
                    LET c == OnZoomChanged(win, z)
                    IN /\ Truncated(Render(c).scaled_width, W, z)
                       /\ c.pan_offset.x <= Max(0, Render(c).scaled_width - win.label.w)

C13_Witness ==
    /\ ImageShown
    /\ (win.original_pixmap.w * win.zoom_spin) % 100 = 50
    /\ Render(win).scaled_width * 100 < win.original_pixmap.w * win.zoom_spin
    /\ Render(win).scaled_width >= 1

\* the inverse mapping, in hundredths of a label pixel: image pixel times
\* zoom, minus pan, plus the centring offset
BackToLabel100(s, image) ==
    [x |-> image.x * s.zoom_spin - s.pan_offset.x * 100
             + ((s.label.w - s.pixmap_size.w) \div 2) * 100,
     y |-> image.y * s.zoom_spin - s.pan_offset.y * 100
             + ((s.label.h - s.pixmap_size.h) \div 2) * 100]

\* how far the round trip lands before the position it started from
RoundTripError100(s, pos) ==
    LET back == BackToLabel100(s, MapLabelPosToImage(s, pos))
    IN [x |-> pos.x * 100 - back.x, y |-> pos.y * 100 - back.y]

OnImage(pos) == MapLabelPosToImage(win, pos) # None

\* C14 as stated: the round trip ends within one label pixel of its start.
C14_RoundTripOnePixel ==
    \A pos \in Positions(win.label) :
        OnImage(pos)
            => LET e == RoundTripError100(win, pos)
               IN e.x \in -100 .. 100 /\ e.y \in -100 .. 100

\* C14, amended: the round trip ends at or before its start, within one
\* image pixel of it: at most max(1, zoom) label pixels on each axis.
C14_RoundTripOneImagePixel ==
    \A pos \in Positions(win.label) :
        OnImage(pos)
            => LET e == RoundTripError100(win, pos)
               IN /\ e.x \in 0 .. Max(100, win.zoom_spin)
                  /\ e.y \in 0 .. Max(100, win.zoom_spin)

C14_Witness ==
    /\ win.zoom_spin > 200 /\ win.pan_offset.x > 0
    /\ \E pos \in Positions(win.label) :
          OnImage(pos) /\ RoundTripError100(win, pos).x = 200

InBuffer(rect, buffer) ==
    /\ rect.x >= 0 /\ rect.y >= 0 /\ rect.w >= 1 /\ rect.h >= 1
    /\ rect.x + rect.w <= buffer.w
    /\ rect.y + rect.h <= buffer.h

\* C15: the rectangle a render copies out of the scaled image, and the one it
\* copies out of the scaled mask, start at a non-negative origin and lie
\* inside their buffer; when the image is cropped the two are the same.
C15_CropInsideBuffer ==
    ImageShown
        => LET r == Render(win)
           IN /\ r.crop # None => InBuffer(r.crop, r.scaled_pixmap)
              /\ r.mask_crop # None => InBuffer(r.mask_crop, r.mask_scaled)
              /\ (r.crop # None /\ r.mask_crop # None) => r.mask_crop = r.crop

C15_Witness ==
    /\ ImageShown
    /\ Render(win).crop # None /\ Render(win).mask_crop # None
    /\ Render(win).crop.x > 0 /\ Render(win).crop.y > 0
    /\ Render(win).crop.x + Render(win).crop.w = Render(win).scaled_pixmap.w

(* ------------------------- properties of strokes ----------------------- *)
\* a drawing move: nothing for a position outside the image, otherwise the
\* segment from the remembered point to the new one, which is remembered
ChainedMove ==
    \E pos \in Positions(win.label) :
        LET target == MapLabelPosToImage(win, pos)
        IN IF target = None
           THEN /\ win'.mask = win.mask
                /\ win'.last_draw_point = win.last_draw_point
           ELSE /\ win'.mask = ApplyStroke(win, win.last_draw_point, target).mask
                /\ win'.last_draw_point = target

\* C16: the pointer-down draws the segment (p0, p0) and remembers p0; a move
\* inside the image draws from the remembered point to the new one and
\* remembers it; a move outside draws nothing and keeps the remembered point;
\* the pointer-up forgets the point, and nothing is drawn while no gesture
\* is in progress.
C16_SegmentsChained ==
    [][/\ (~win.drawing /\ win'.drawing)
            => LET p0 == win'.last_draw_point
               IN /\ p0 # None
                  /\ win'.mask = ApplyStroke(EnsureMask(win), p0, p0).mask
       /\ (win.drawing /\ win'.drawing) => ChainedMove
       /\ (win.drawing /\ ~win'.drawing)
            => (win'.last_draw_point = None /\ win'.mask = win.mask)
       /\ (~win.drawing /\ ~win'.drawing) => win'.mask = win.mask
       /\ ~win'.drawing
            => \A pos \in Positions(win'.label) : MouseMoveOf(win', pos) = win']_vars

\* one segment across the image: the pixels it runs along are covered whole
\* (no dab of this brush covers a pixel whole), the pixel at its end in part
C16_Witness ==
    /\ win.drawing /\ gesture # None /\ gesture.moved
    /\ win.radius_spin = RadiusMin
    /\ win.last_draw_point = Pt(2, 0)
    /\ win.mask.px[<<0, 0>>] = Opaque
    /\ win.mask.px[<<1, 0>>] = Opaque
    /\ win.mask.px[<<2, 0>>] = PartialCoverage

OffImage(pos) == MapLabelPosToImage(win, pos) = None

\* C17: with the Pen or the Eraser, a pointer-down at a position that maps to
\* no image pixel changes nothing (mask, history, no gesture started), a
\* drawing move to such a position leaves mask and remembered point alone, and
\* a stroke with a null point changes nothing.
C17_NullPointNoOp ==
    \A pos \in Positions(win.label) :
        OffImage(pos)
            => /\ (win.tool # "cursor" /\ ~win.drawing /\ ~win.dragging)
                    => MousePressOf(win, pos) = win
               /\ (win.tool # "cursor" /\ win.drawing)
                    => MouseMoveOf(win, pos) = win
               /\ \A q \in Positions(win.label) :
                    /\ ApplyStroke(win, None, MapLabelPosToImage(win, q)) = win
                    /\ ApplyStroke(win, MapLabelPosToImage(win, q), None) = win

C17_Witness ==
    /\ win.original_pixmap # None /\ Marked(win.mask)
    /\ win.tool # "cursor" /\ ~win.drawing /\ ~win.dragging
    /\ win.redo_stack # <<>>
    /\ \E pos \in Positions(win.label) : OffImage(pos)
    /\ \E pos \in Positions(win.label) : ~OffImage(pos)


\* what a save gives for every outcome of the file system: it shows the
\* message, and leaves the window and both folders as they are
SaveRejected(message) ==
    \A outcome \in SaveOutcomes(win.workspace_mode) :
        LET r == SaveMaskOf(win, mask_files, originals, config.file, outcome)
        IN /\ r.message = message
           /\ r.files = mask_files
           /\ r.originals = originals
           /\ r.win = win

\* C18: saving when there is no mask (no image loaded, an empty image list, a
\* failed decode) shows "No mask to save.", writes no file and leaves the
\* index, the history stacks and the viewport unchanged; it never fails on an
\* empty image list.
C18_SaveWithoutMask ==
    /\ win.mask = None => SaveRejected(NoMaskToSave)
    /\ \A outcome \in SaveOutcomes(win.workspace_mode) :
           SaveMaskOf(win, mask_files, originals, config.file, outcome).message # "IndexError"

\* a failed decode after a stroke: no mask, and a history the save must keep
C18_Witness ==
    /\ win.mask = None
    /\ win.image_files # <<>>
    /\ win.undo_stack # <<>>
    /\ SaveRejected(NoMaskToSave)

\* C19: a save is all-or-nothing: whenever the mask file or the copy of the
\* original newly appears in the workspace, both are there, the mask file
\* holding the mask; a save whose mask write or copy failed leaves neither.
C19_SaveAllOrNothing ==
    [][(mask_files' # mask_files \/ originals' # originals) =>
         LET file == win.image_files[win.current_index + 1]
         IN /\ NameOf(file) \in originals'
            /\ mask_files'[MaskFileOf(file)] = PngOf(win.mask)]_vars

\* C20: WorkspaceConfig.load returns a configuration for every content of
\* workspace_config.json, and never raises.
C20_ConfigNeverFatal ==
    config.loaded # None =>
        /\ config.loaded.raised = "none"
        /\ config.loaded.config # None


\* the window a later Open Workspace gives, showing the given image
ReopenedAt(r, file) ==
    LET o == ReopenOf(r.win, r.files, r.originals)
    IN IF \E i \in 1 .. Len(o.image_files) : o.image_files[i] = file
       THEN LET i == CHOOSE i \in 1 .. Len(o.image_files) : o.image_files[i] = file
            IN LoadCurrentImage([o EXCEPT !.current_index = i - 1], r.files)
       ELSE o

\* C21: a mask saved in a new workspace is written as <basename>_mask.png in
\* the workspace's Mask folder: the masked-images counter finds it, and it is
\* the mask loaded for the image when the workspace is opened later, whatever
\* naming pattern and sub-folder names the configuration gives.
C21_SavedMaskIsFound ==
    (win.workspace_mode = "create" /\ win.mask # None) =>
        LET r == SaveMaskOf(win, mask_files, originals, config.file, "ok")
        IN r.message = Saved =>
             /\ FileAt(r.files, MaskFileOf(CurrentFile)) = PngOf(win.mask)
             /\ FileAt(r.files, PathOf(win.mask_dir, MaskFileOf(CurrentFile).name))
                    = PngOf(win.mask)
             /\ ReopenedAt(r, CurrentFile).mask = win.mask


\* C22: a save that fails is reported in a message box and leaves the current
\* index, the mask, both history stacks and the viewport as they were: for a
\* failing mask write, a failing copy, a workspace that was not created and a
\* naming pattern that cannot be used.
C22_FailedSaveKeepsSession ==
    \A outcome \in SaveOutcomes(win.workspace_mode) :
        LET r == SaveMaskOf(win, mask_files, originals, config.file, outcome)
        IN r.message # Saved =>
             /\ r.message \in Reported \cup {NoMaskToSave}
             /\ r.win = win

\* the file Save Mask writes for an image of the list
WrittenFileOf(s, cfg, file) ==
    IF s.workspace_mode = "create"
    THEN SavedMaskFileOf(s.mask_dir, GetNamingPattern(cfg).value, file).path
    ELSE PathOf(s.mask_dir, MaskFileOf(file).name)

\* C30: two different entries of the image list have different mask files,
\* both for the file Save Mask writes and for the file the mask lookup
\* reads, also when the entries differ only in their extension.
C30_DistinctMaskFiles ==
    \A i, j \in 1 .. Len(win.image_files) :
        i # j =>
            /\ MaskFileOf(win.image_files[i]) # MaskFileOf(win.image_files[j])
            /\ WrittenFileOf(win, config.file, win.image_files[i])
                   # WrittenFileOf(win, config.file, win.image_files[j])


Frame(s) == [render |-> Render(s), mask |-> s.mask]

\* a session with the same image, mask, zoom, pan and label size, and with
\* every other attribute of the window different or reset
OtherSession(s) ==
    [s EXCEPT !.undo_stack = <<>>, !.redo_stack = <<>>,
              !.tool = IF s.tool = "pen" THEN "erase" ELSE "pen",
              !.radius_spin = IF s.radius_spin = RadiusMin THEN RadiusMax ELSE RadiusMin,
              !.current_index = 0, !.image_files = <<>>,
              !.workspace_mode = IF s.workspace_mode = "open" THEN "create" ELSE "open",
              !.pixmap_size = NullPixmap, !.label_text = "",
              !.drawing = ~s.drawing, !.last_draw_point = None,
              !.dragging = ~s.dragging, !.drag_start = None, !.pan_start = None]

\* pan offsets around the bounds of the scaled pixmap, on either axis
PansAround(s) ==
    LET r == Render(s)
    IN {Pt(x, s.pan_offset.y) : x \in {-1, 0, r.max_x, r.max_x + 1, r.max_x + 2}}
       \cup {Pt(s.pan_offset.x, y) : y \in {-1, 0, r.max_y, r.max_y + 1, r.max_y + 2}}

ImagePoints(s) == {Pt(x, y) : x \in 0 .. s.original_pixmap.w - 1,
                             y \in 0 .. s.original_pixmap.h - 1}

\* the mask after a stroke with the given tool, the radius being the window's
StrokeWith(s, tool, a, b) == ApplyStroke([s EXCEPT !.tool = tool], a, b).mask

\* C25: for any mask content, a stroke in erase mode followed by the same
\* stroke (same start, end and radius) in paint mode gives the mask the paint
\* stroke alone gives.
C25_EraseThenPaint ==
    (ImageShown /\ win.mask # None) =>
        \A a, b \in ImagePoints(win) :
            LET erased == [win EXCEPT !.mask = StrokeWith(win, "erase", a, b)]
            IN StrokeWith(erased, "pen", a, b) = StrokeWith(win, "pen", a, b)


\* squared distance between two points
Dist2(x1, y1, x2, y2) == (x1 - x2) * (x1 - x2) + (y1 - y2) * (y1 - y2)

\* pixel q lies within r of point pt: by its coordinates, or by its centre
\* (doubled, to stay in the integers)
PixelWithin(q, pt, r) ==
    \/ Dist2(q[1], q[2], pt.x, pt.y) <= r * r
    \/ Dist2(2 * q[1] + 1, 2 * q[2] + 1, 2 * pt.x, 2 * pt.y) <= 4 * r * r

\* the square of pixel q reaches into the open disk of radius r about pt
PixelOverlaps(q, pt, r) ==
    \E i, j \in {0, 1} : Dist2(q[1] + i, q[2] + j, pt.x, pt.y) < r * r

\* the square of pixel q lies in the closed disk of radius r about pt
PixelInside(q, pt, r) ==
    \A i, j \in {0, 1} : Dist2(q[1] + i, q[2] + j, pt.x, pt.y) <= r * r

\* a pointer-down of the Pen on a blank mask, at a position on the image
DotOnBlank(pos) ==
    /\ ImageShown /\ win.mask # None /\ ~Marked(win.mask)
    /\ win.tool = "pen"
    /\ MapLabelPosToImage(win, pos) # None

\* C26 as stated: a pointer-down without movement on a blank mask marks only
\* pixels within the radius of the point, and leaves every pixel farther
\* than the radius from it at zero alpha.
C26_DotWithinRadius ==
    \A pos \in Positions(win.label) :
        DotOnBlank(pos) =>
            LET pt == MapLabelPosToImage(win, pos)
                m == MousePressOf(win, pos).mask
            IN \A q \in DOMAIN m.px :
                 m.px[q] # 0 => PixelWithin(q, pt, win.radius_spin)

\* C26, amended: the dot is the disk of radius r about the point p, taken as
\* the corner it names on the pixel grid; only pixels whose square reaches
\* into the disk are marked (here all of them, those wholly inside it
\* opaque), so a marked pixel lies less than r + sqrt(2) from p, and every
\* pixel whose square lies outside the disk keeps zero alpha.
C26_DotOverlapsDisk ==
    \A pos \in Positions(win.label) :
        DotOnBlank(pos) =>
            LET pt == MapLabelPosToImage(win, pos)
                r == win.radius_spin
                m == MousePressOf(win, pos).mask
            IN \A q \in DOMAIN m.px :
                 /\ m.px[q] # 0 <=> PixelOverlaps(q, pt, r)
                 /\ PixelInside(q, pt, r) => m.px[q] = Opaque
                 /\ m.px[q] # 0 =>
                      LET k == Dist2(q[1], q[2], pt.x, pt.y) - r * r - 2
                      IN k <= 0 \/ k * k < 8 * r * r

\* a dot of radius 2 pressed at (2, 2) on the blank mask: the pixel at (0, 0),
\* farther than 2 from the point, is marked in part
C26_Witness ==
    /\ win.radius_spin = RadiusMin + 1
    /\ win.drawing /\ win.last_draw_point = Pt(2, 2)
    /\ Len(win.undo_stack) = 1 /\ ~Marked(Top(win.undo_stack))
    /\ win.mask.px[<<0, 0>>] = PartialCoverage
    /\ win.mask.px[<<1, 1>>] = Opaque
    /\ ~PixelWithin(<<0, 0>>, Pt(2, 2), RadiusMin + 1)


\* the entries of a listing, as a set
EntriesOf(items) == {items[i] : i \in 1 .. Len(items)}

\* C27: the navigation list holds exactly the directory entries whose
\* extension is, without regard to case, one of png, jpg, jpeg, bmp, tif,
\* tiff, each once, ordered by name; no other entry appears, and every other
\* order of the same directory listing gives the same list.
C27_DiscoveredList ==
    LET list == win.image_files
        Ext(entry) == entry.ext
    IN /\ EntriesOf(list) =
            {entry \in EntriesOf(ev.items) :
                Ext(entry) \in {".png", ".PNG", ".jpg", ".jpeg", ".bmp", ".tif", ".tiff", ".TIFF"}}
       /\ \A i, j \in 1 .. Len(list) : i < j => Rank(list[i]) < Rank(list[j])
       /\ \A other \in Orders(EntriesOf(ev.items)) : DiscoverImages(other) = list

\* a listing out of order with an upper-case extension and entries that are
\* no images; the walk has moved on to the second image
C27_Witness ==
    /\ Len(ev.items) = 4
    /\ ev.items[1].ext = ".TIFF" /\ ev.items[2].ext = ".bak"
    /\ ev.items[3].ext = ".PNG" /\ ev.items[4].base = ".png"
    /\ Len(win.image_files) = 2
    /\ win.image_files[1].ext = ".PNG" /\ win.image_files[2].ext = ".TIFF"
    /\ win.current_index = 1


\* C28: Save Mask never stores the annotation of one image under another
\* image's name: whenever a save writes the mask file of the image at the
\* current index, that image is the one decoded and shown and the mask has
\* its size.
C28_SaveOnlyOwnAnnotation ==
    \A outcome \in SaveOutcomes(win.workspace_mode) :
        LET r == SaveMaskOf(win, mask_files, originals, config.file, outcome)
        IN r.files # mask_files =>
             /\ win.original_pixmap # None
             /\ win.mask.w = win.original_pixmap.w
             /\ win.mask.h = win.original_pixmap.h


\* C29: whenever a pointer-move of a drawing gesture changes the mask, the
\* snapshot of the gesture's pointer-down is there to undo it: the undo stack
\* has a top and the redo stack is empty, also when undo, redo or an image
\* switch came between the pointer-down and the move.
C29_StrokeUndoable ==
    [][(\E pos \in Positions(win.label) :
            /\ win.drawing /\ win.tool \in {"pen", "erase"}
            /\ win' = MouseMoveOf(win, pos)
            /\ win'.mask # win.mask)
        => /\ win.undo_stack # <<>>
           /\ win.redo_stack = <<>>
           /\ gesture # None /\ gesture.before # None
                  => Top(win.undo_stack) = gesture.before]_vars


\* the points of the image label that lie inside the pixmap it shows
InsidePixmap(s) ==
    {pos \in Positions(s.label) :
        LET local_x == pos.x - (s.label.w - s.pixmap_size.w) \div 2
            local_y == pos.y - (s.label.h - s.pixmap_size.h) \div 2
        IN /\ 0 <= local_x /\ local_x < s.pixmap_size.w
           /\ 0 <= local_y /\ local_y < s.pixmap_size.h}

\* C32: with an image loaded, after any pans, zoom changes, resizes and
\* image switches, every point of the label inside the pixmap shown maps to
\* a pixel of the image, 0 <= x < W and 0 <= y < H, and never to "outside".
C32_InsideMapsToPixel ==
    win.original_pixmap # None =>
        \A pos \in InsidePixmap(win) :
            LET target == MapLabelPosToImage(win, pos)
            IN /\ target # None
               /\ target.x \in 0 .. win.original_pixmap.w - 1
               /\ target.y \in 0 .. win.original_pixmap.h - 1

\* zoomed in and panned to the far corner: the last point inside the pixmap
\* maps to the last pixel of the image
C32_Witness ==
    /\ win.original_pixmap # None /\ win.zoom_spin = 300
    /\ win.pan_offset.x > 0 /\ win.pan_offset.y > 0
    /\ \E pos \in InsidePixmap(win) :
          MapLabelPosToImage(win, pos) =
              Pt(win.original_pixmap.w - 1, win.original_pixmap.h - 1)


\* C34: the Undo button is enabled exactly when the undo stack is not empty
\* and the Redo button exactly when the redo stack is not empty, after any
\* strokes, undos, redos and image switches, failed loads included.
C34_ButtonsMatchHistory ==
    /\ win.undo_btn <=> win.undo_stack # <<>>
    /\ win.redo_btn <=> win.redo_stack # <<>>

\* an image that failed to load, with the history of the image before it
\* left over: the Undo button stays enabled, the Redo button disabled
C34_Witness ==
    /\ win.original_pixmap = None /\ win.mask = None
    /\ win.undo_stack # <<>> /\ win.redo_stack = <<>>
    /\ win.undo_btn /\ ~win.redo_btn


\* what an array was made from: the file read and the crops applied
SourceOf(image) == [file |-> image.file, crops |-> image.crops]

\* C35: Start segmentation predicts from the image currently loaded: the
\* array handed to make_prediction comes from the file browsed last with the
\* crops applied last, as it is or contrast-enhanced, never from an earlier
\* file or from the image before cropping.
C35_PredictsFromCurrent ==
    (seg # None /\ seg.raised = "none" /\ seg.us_img_array # None)
        => SourceOf(PredictionInput(seg)) = SourceOf(seg.us_img_array)

\* C36: the coordinates the crop dialog stores on release are a well-formed
\* box, left <= right and top <= bottom, and whenever the dialog's crop
\* button can be used a box is stored.
C36_WellFormedBox ==
    (seg # None /\ seg.raised = "none" /\ seg.crop # None /\ ~seg.crop.left_down)
        => /\ seg.crop.coordinates # None
           /\ seg.crop.coordinates.x_begin <= seg.crop.coordinates.x_destination
           /\ seg.crop.coordinates.y_begin <= seg.crop.coordinates.y_destination


\* C31: for a JSON object in workspace_config.json the configuration that
\* load returns has workspace_root, naming_pattern,
\* create_timestamp_on_conflict and a subdirs entry with both the 'original'
\* and the 'mask' key, so creating the workspace never fails on a missing key.
C31_MergedConfigComplete ==
    (ev.op = "new_workspace" /\ config.file.kind = "object")
        => /\ config.loaded.raised = "none"
           /\ {"workspace_root", "naming_pattern", "subdirs",
               "create_timestamp_on_conflict"} \subseteq DOMAIN config.loaded.config
           /\ {"original", "mask"} \subseteq DOMAIN GetSubdirNames(config.file).value
           /\ ev.raised # "KeyError"

\* C33: with create_timestamp_on_conflict true, a new workspace on a source
\* whose base workspace directory exists gets a workspace directory that did
\* not exist before, also for two new workspaces within one clock second.
C33_ConflictGetsNewDirectory ==
    (/\ ev.op = "new_workspace" /\ ev.raised = "none"
     /\ BaseWorkspace(SourceName) \in ev.existed
     /\ GetTimestampOnConflict(config.file).value)
        => ev.workspace_dir \notin ev.existed

====
